---------------------------- MODULE Spec2Model ----------------------------
(***************************************************************************)
(* UBC Workday to Calendar: the schedule-row parser (src/js/parser.js),    *)
(* the recurring-event encoder (src/js/icsGenerator.js) and the page       *)
(* script that holds the uploaded file's events (app.js).                  *)
(*                                                                         *)
(* Text is a TLA+ string (Len, SubSeq and \o act on it character by        *)
(* character).  A JavaScript value whose type matters is a tagged record:  *)
(* Str(s), Num(n), Arr(a), Null, Undefined; a thrown exception is          *)
(* Throw(msg).  A Date object is the number of its calendar day, counted   *)
(* from 1970-01-01.                                                        *)
(***************************************************************************)
EXTENDS Integers, Sequences, FiniteSets, TLC

VARIABLES
    pc,         \* position of the operation in progress
    call,       \* the function applied and its arguments (direct calls)
    ret,        \* what that call returned, or the exception it threw
    genEvents,  \* generate: the events argument
    genIdx,     \* generate: index of the next event of the for-loop
    lines,      \* generate: the lines array
    doc,        \* generate: the returned document, or the exception
    rows,       \* parse: the rows of the first sheet
    dataRows,   \* parse: the rows filterDataRows kept
    rowIdx,     \* parse: index of the next row of the for-loop
    events,     \* parse: the events array
    errors,     \* parse: the errors array
    currentEvents,    \* app: let currentEvents
    currentFileName,  \* app: let currentFileName
    reads,      \* app: the calls of handleFile waiting at await readFile(file)
    hidden,     \* app: the hidden attribute of fileInfo, previewSection, errorSection
    download    \* app: the last file handed to the browser, name and content

\* the state of the page script
appVars == <<currentEvents, currentFileName, reads, hidden, download>>

\* the state of the calls of the parser and the generator
libVars == <<pc, call, ret, genEvents, genIdx, lines, doc,
             rows, dataRows, rowIdx, events, errors>>

vars == <<pc, call, ret, genEvents, genIdx, lines, doc,
          rows, dataRows, rowIdx, events, errors,
          currentEvents, currentFileName, reads, hidden, download>>

(***************************************************************************)
(* JavaScript values                                                       *)
(***************************************************************************)
Null == [t |-> "null"]
Undefined == [t |-> "undefined"]
Str(s) == [t |-> "string", v |-> s]
Num(n) == [t |-> "number", v |-> n]
Arr(a) == [t |-> "array", v |-> a]
Bool(b) == [t |-> "boolean", v |-> b]
Throw(msg) == [t |-> "throw", msg |-> msg]

IsThrow(x) == "t" \in DOMAIN x /\ x.t = "throw"

\* ToBoolean: null, undefined, '' and 0 are falsy; arrays and objects are truthy.
Truthy(x) ==
    IF "t" \in DOMAIN x
    THEN CASE x.t = "null" -> FALSE
           [] x.t = "undefined" -> FALSE
           [] x.t = "string" -> x.v # ""
           [] x.t = "number" -> x.v # 0
           [] x.t = "boolean" -> x.v
           [] OTHER -> TRUE
    ELSE TRUE

\* a || b
Or(a, b) == IF Truthy(a) THEN a ELSE b

(***************************************************************************)
(* Characters and strings                                                  *)
(***************************************************************************)
Ch(s, i) == SubSeq(s, i, i)

DigitChars == "0123456789"
LowerChars == "abcdefghijklmnopqrstuvwxyz"
UpperChars == "ABCDEFGHIJKLMNOPQRSTUVWXYZ"
\* The printable ASCII characters in code order: 32..95 and 97..126 (a string
\* cannot hold the grave accent, code 96, which no input contains).
AsciiLow == " !\"#$%&'()*+,-./0123456789:;<=>?@ABCDEFGHIJKLMNOPQRSTUVWXYZ[\\]^_"
AsciiHigh == "abcdefghijklmnopqrstuvwxyz{|}~"

CharSet(s) == {Ch(s, i) : i \in 1..Len(s)}
Digit == CharSet(DigitChars)
Lower == CharSet(LowerChars)
Upper == CharSet(UpperChars)
Alpha == Lower \cup Upper
\* \s of a regular expression, as far as the inputs go
Space == {" ", "\n", "\r", "\t"}

IndexIn(s, c) == CHOOSE i \in 1..Len(s) : Ch(s, i) = c

DigitVal(c) == IndexIn(DigitChars, c) - 1
ToLowerCh(c) == IF c \in Upper THEN Ch(LowerChars, IndexIn(UpperChars, c)) ELSE c
ToUpperCh(c) == IF c \in Lower THEN Ch(UpperChars, IndexIn(LowerChars, c)) ELSE c

RECURSIVE toLowerCase(_)
toLowerCase(s) == IF s = "" THEN "" ELSE ToLowerCh(Head(s)) \o toLowerCase(Tail(s))

RECURSIVE toUpperCase(_)
toUpperCase(s) == IF s = "" THEN "" ELSE ToUpperCh(Head(s)) \o toUpperCase(Tail(s))

\* charCodeAt for the printable ASCII characters; 10 and 13 for the line breaks
charCode(c) ==
    IF c = "\n" THEN 10 ELSE IF c = "\r" THEN 13 ELSE IF c = "\t" THEN 9
    ELSE IF c \in CharSet(AsciiHigh) THEN 96 + IndexIn(AsciiHigh, c)
    ELSE 31 + IndexIn(AsciiLow, c)

\* String(n) of a non-negative integer
RECURSIVE NatToString(_)
NatToString(n) ==
    IF n < 10 THEN Ch(DigitChars, n + 1)
    ELSE NatToString(n \div 10) \o Ch(DigitChars, (n % 10) + 1)

\* parseInt(s, 10) of a string of digits
RECURSIVE ParseDigits(_, _)
ParseDigits(s, acc) ==
    IF s = "" THEN acc ELSE ParseDigits(Tail(s), 10 * acc + DigitVal(Head(s)))

parseInt(s) == ParseDigits(s, 0)

\* s.padStart(2, '0')
padStart2(s) == IF Len(s) < 2 THEN "0" \o s ELSE s

\* String(x) as a template literal renders a cell value
ToText(x) ==
    CASE x.t = "string" -> x.v
      [] x.t = "number" -> NatToString(x.v)
      [] x.t = "undefined" -> "undefined"
      [] x.t = "null" -> "null"

StartsWithAt(s, i, p) == i + Len(p) - 1 <= Len(s) /\ SubSeq(s, i, i + Len(p) - 1) = p
startsWith(s, p) == StartsWithAt(s, 1, p)

\* s.includes(p)
includes(s, p) == \E i \in 1..(Len(s) + 1) : StartsWithAt(s, i, p)

\* a.join(sep) of an array of strings
RECURSIVE join(_, _)
join(a, sep) ==
    IF Len(a) = 0 THEN ""
    ELSE IF Len(a) = 1 THEN a[1]
    ELSE a[1] \o sep \o join(Tail(a), sep)

\* s.trim()
RECURSIVE trimStart(_)
trimStart(s) == IF s # "" /\ Head(s) \in Space THEN trimStart(Tail(s)) ELSE s

RECURSIVE trimEnd(_)
trimEnd(s) ==
    IF s # "" /\ Ch(s, Len(s)) \in Space THEN trimEnd(SubSeq(s, 1, Len(s) - 1)) ELSE s

trim(s) == trimEnd(trimStart(s))

(***************************************************************************)
(* Regular expressions.  An expression is a tree; ReMatch gives every way  *)
(* it matches at a position, in the order a backtracking matcher tries     *)
(* them (greedy quantifiers, alternatives left to right), so the first is  *)
(* the match RegExp reports.  A way is [e |-> the position after the       *)
(* match, c |-> the capture groups].                                        *)
(***************************************************************************)
ReSet(cs) == [k |-> "set", cs |-> cs]
ReNot(cs) == [k |-> "nset", cs |-> cs]
ReLit(w) == [k |-> "lit", w |-> w, ci |-> FALSE]
\* a literal under the i flag
ReLitI(w) == [k |-> "lit", w |-> toLowerCase(w), ci |-> TRUE]
ReSeq(rs) == [k |-> "seq", rs |-> rs]
ReAlt(rs) == [k |-> "alt", rs |-> rs]
\* r{min,max}, greedy; max = -1 is no upper limit
ReRep(r, min, max) == [k |-> "rep", r |-> r, min |-> min, max |-> max]
ReStar(r) == ReRep(r, 0, -1)
RePlus(r) == ReRep(r, 1, -1)
ReOpt(r) == ReRep(r, 0, 1)
\* capture group number n
ReGroup(n, r) == [k |-> "grp", n |-> n, r |-> r]
ReBol == [k |-> "bol"]
ReEol == [k |-> "eol"]
ReWordBoundary == [k |-> "wb"]

\* \w
WordChars == Alpha \cup Digit \cup {"_"}
\* . matches all but the line terminators
LineTerminators == {"\n", "\r"}

IsWordAt(s, i) == i >= 1 /\ i <= Len(s) /\ Ch(s, i) \in WordChars

RECURSIVE ReMatch(_, _, _, _)
RECURSIVE ReSeqFrom(_, _, _, _, _)
RECURSIVE ReSeqThen(_, _, _, _, _)
RECURSIVE ReAltFrom(_, _, _, _, _)
RECURSIVE ReRepFrom(_, _, _, _, _)
RECURSIVE ReRepThen(_, _, _, _, _, _)
RECURSIVE ReGroupSet(_, _, _, _, _)

ReMatch(re, s, i, caps) ==
    CASE re.k = "set" ->
            IF i <= Len(s) /\ Ch(s, i) \in re.cs THEN <<[e |-> i + 1, c |-> caps]>> ELSE <<>>
      [] re.k = "nset" ->
            IF i <= Len(s) /\ Ch(s, i) \notin re.cs THEN <<[e |-> i + 1, c |-> caps]>> ELSE <<>>
      [] re.k = "lit" ->
            IF i + Len(re.w) - 1 <= Len(s)
               /\ (IF re.ci THEN toLowerCase(SubSeq(s, i, i + Len(re.w) - 1))
                   ELSE SubSeq(s, i, i + Len(re.w) - 1)) = re.w
            THEN <<[e |-> i + Len(re.w), c |-> caps]>> ELSE <<>>
      [] re.k = "seq" -> ReSeqFrom(re.rs, 1, s, i, caps)
      [] re.k = "alt" -> ReAltFrom(re.rs, 1, s, i, caps)
      [] re.k = "rep" -> ReRepFrom(re, s, i, caps, 0)
      [] re.k = "grp" -> ReGroupSet(ReMatch(re.r, s, i, caps), 1, re.n, s, i)
      [] re.k = "bol" -> IF i = 1 THEN <<[e |-> i, c |-> caps]>> ELSE <<>>
      [] re.k = "eol" -> IF i = Len(s) + 1 THEN <<[e |-> i, c |-> caps]>> ELSE <<>>
      [] re.k = "wb" ->
            IF IsWordAt(s, i - 1) # IsWordAt(s, i) THEN <<[e |-> i, c |-> caps]>> ELSE <<>>

ReSeqFrom(rs, k, s, i, caps) ==
    IF k > Len(rs) THEN <<[e |-> i, c |-> caps]>>
    ELSE ReSeqThen(ReMatch(rs[k], s, i, caps), 1, rs, k + 1, s)

ReSeqThen(xs, j, rs, k, s) ==
    IF j > Len(xs) THEN <<>>
    ELSE ReSeqFrom(rs, k, s, xs[j].e, xs[j].c) \o ReSeqThen(xs, j + 1, rs, k, s)

ReAltFrom(rs, k, s, i, caps) ==
    IF k > Len(rs) THEN <<>>
    ELSE ReMatch(rs[k], s, i, caps) \o ReAltFrom(rs, k + 1, s, i, caps)

\* n rounds are done; another round first (greedy), then stopping here
ReRepFrom(re, s, i, caps, n) ==
    (IF re.max = -1 \/ n < re.max
     THEN ReRepThen(ReMatch(re.r, s, i, caps), 1, re, s, i, n) ELSE <<>>)
    \o (IF n >= re.min THEN <<[e |-> i, c |-> caps]>> ELSE <<>>)

ReRepThen(xs, j, re, s, i, n) ==
    IF j > Len(xs) THEN <<>>
    ELSE (IF xs[j].e > i THEN ReRepFrom(re, s, xs[j].e, xs[j].c, n + 1) ELSE <<>>)
         \o ReRepThen(xs, j + 1, re, s, i, n)

ReGroupSet(xs, j, n, s, i) ==
    IF j > Len(xs) THEN <<>>
    ELSE <<[e |-> xs[j].e,
            c |-> [xs[j].c EXCEPT ![n] = Str(SubSeq(s, i, xs[j].e - 1))]]>>
         \o ReGroupSet(xs, j + 1, n, s, i)

NoGroups(ng) == [g \in 1..ng |-> Undefined]

\* regex.exec(s) from position from: Null, or the leftmost match
\* [index, end (the position after it), text, groups]
RECURSIVE ReExec(_, _, _, _)
ReExec(re, ng, s, from) ==
    IF from > Len(s) + 1 THEN Null
    ELSE LET xs == ReMatch(re, s, from, NoGroups(ng))
         IN  IF Len(xs) > 0
             THEN [index |-> from, end |-> xs[1].e,
                   text |-> SubSeq(s, from, xs[1].e - 1), groups |-> xs[1].c]
             ELSE ReExec(re, ng, s, from + 1)

\* s.match(re) without the g flag
match(s, re, ng) == ReExec(re, ng, s, 1)

\* s.match(re) with the g flag: the texts of all matches (<<>> for null)
RECURSIVE matchAll(_, _, _)
matchAll(s, re, from) ==
    LET m == ReExec(re, 0, s, from)
    IN  IF m = Null THEN <<>>
        ELSE <<m.text>> \o matchAll(s, re, IF m.end > m.index THEN m.end ELSE m.end + 1)

\* s.replace(re, to) with the g flag
RECURSIVE replaceAll(_, _, _)
replaceAll(s, re, to) ==
    LET m == ReExec(re, 0, s, 1)
    IN  IF m = Null \/ m.end = m.index THEN s
        ELSE SubSeq(s, 1, m.index - 1) \o to \o replaceAll(SubSeq(s, m.end, Len(s)), re, to)

\* s.split(re) for an expression that matches no empty string
RECURSIVE split(_, _)
split(s, re) ==
    LET m == ReExec(re, 0, s, 1)
    IN  IF m = Null \/ m.end = m.index \/ s = "" THEN <<s>>
        ELSE <<SubSeq(s, 1, m.index - 1)>> \o split(SubSeq(s, m.end, Len(s)), re)

(***************************************************************************)
(* The Date object: a calendar day counted from 1970-01-01 (a Thursday)    *)
(***************************************************************************)
IsLeapYear(y) == (y % 4 = 0 /\ y % 100 # 0) \/ y % 400 = 0

DaysInMonth(y, m) ==
    IF m = 2 THEN (IF IsLeapYear(y) THEN 29 ELSE 28)
    ELSE IF m \in {4, 6, 9, 11} THEN 30 ELSE 31

\* day number of January 1st of year y
DayFromYear(y) ==
    365 * (y - 1970) + ((y - 1969) \div 4) - ((y - 1901) \div 100) + ((y - 1601) \div 400)

RECURSIVE DaysBeforeMonth(_, _)
DaysBeforeMonth(y, m) ==
    IF m <= 1 THEN 0 ELSE DaysBeforeMonth(y, m - 1) + DaysInMonth(y, m - 1)

\* MakeDay: month0 counts from 0 and may exceed 11, date may exceed the month
MakeDay(y, month0, date) ==
    LET ym == y + (month0 \div 12)
        mn == (month0 % 12) + 1
    IN  DayFromYear(ym) + DaysBeforeMonth(ym, mn) + date - 1

\* new Date(year, monthIndex, day): a year in 0..99 means 1900 + year
NewDate(y, month0, date) ==
    MakeDay(IF y \in 0..99 THEN 1900 + y ELSE y, month0, date)

getFullYear(t) ==
    LET a == 1970 + (t \div 366)
        b == 1970 + (t \div 365)
    IN  CHOOSE y \in (a..b) \cup (b..a) : DayFromYear(y) <= t /\ t < DayFromYear(y + 1)

\* getMonth() + 1
MonthOf(t) ==
    LET y == getFullYear(t)
        n == t - DayFromYear(y)
    IN  CHOOSE m \in 1..12 :
            DaysBeforeMonth(y, m) <= n /\ n < DaysBeforeMonth(y, m) + DaysInMonth(y, m)

getDate(t) ==
    LET y == getFullYear(t)
    IN  t - DayFromYear(y) - DaysBeforeMonth(y, MonthOf(t)) + 1

\* 0 = Sunday .. 6 = Saturday
getDay(t) == (t + 4) % 7

\* date.setDate(d): the day of the month, carried into the next months
setDate(t, d) == MakeDay(getFullYear(t), MonthOf(t) - 1, d)

(***************************************************************************)
(* ICSGenerator                                                            *)
(***************************************************************************)
DayCodes == <<"SU", "MO", "TU", "WE", "TH", "FR", "SA">>

\* dayToNum[d], Undefined for a key the table lacks
dayToNum(d) ==
    IF \E i \in 1..7 : DayCodes[i] = d
    THEN Num((CHOOSE i \in 1..7 : DayCodes[i] = d) - 1)
    ELSE Undefined

\* days.map(d => dayToNum[d]).filter(n => n !== undefined)
RECURSIVE targetDaysOf(_)
targetDaysOf(days) ==
    IF Len(days) = 0 THEN <<>>
    ELSE LET n == dayToNum(Head(days))
         IN  (IF n = Undefined THEN <<>> ELSE <<n.v>>) \o targetDaysOf(Tail(days))

ArrIncludes(a, x) == \E i \in 1..Len(a) : a[i] = x

\* firstOccurrenceLoop with the loop bound one short (i < 6)
RECURSIVE firstOccurrenceLoopShort(_, _, _, _)
firstOccurrenceLoopShort(startDate, date, targetDays, i) ==
    IF i < 6
    THEN LET checkDate == setDate(date, getDate(date) + i)
         IN  IF ArrIncludes(targetDays, getDay(checkDate))
             THEN [via |-> "loop", i |-> i,
                   value |-> [year |-> getFullYear(checkDate),
                              month |-> MonthOf(checkDate),
                              day |-> getDate(checkDate)]]
             ELSE firstOccurrenceLoopShort(startDate, date, targetDays, i + 1)
    ELSE [via |-> "fallback", i |-> i, value |-> startDate]

\* the for-loop of findFirstOccurrence from iteration i on
RECURSIVE firstOccurrenceLoop(_, _, _, _)
firstOccurrenceLoop(startDate, date, targetDays, i) ==
    IF i < 7
    THEN LET checkDate == setDate(date, getDate(date) + i)
         IN  IF ArrIncludes(targetDays, getDay(checkDate))
             THEN [via |-> "loop", i |-> i,
                   value |-> [year |-> getFullYear(checkDate),
                              month |-> MonthOf(checkDate),
                              day |-> getDate(checkDate)]]
             ELSE firstOccurrenceLoop(startDate, date, targetDays, i + 1)
    ELSE [via |-> "fallback", i |-> i, value |-> startDate]

\* findFirstOccurrence with the return statement that was taken
findFirstOccurrencePath(startDate, days) ==
    LET targetDays == targetDaysOf(days)
    IN  IF Len(targetDays) = 0
        THEN [via |-> "null", i |-> 0, value |-> Null]
        ELSE firstOccurrenceLoop(startDate,
                 NewDate(startDate.year, startDate.month - 1, startDate.day),
                 targetDays, 0)

findFirstOccurrence(startDate, days) == findFirstOccurrencePath(startDate, days).value

formatDateTime(date, time) ==
    NatToString(date.year) \o padStart2(NatToString(date.month))
        \o padStart2(NatToString(date.day)) \o "T"
        \o padStart2(NatToString(time.hours)) \o padStart2(NatToString(time.minutes))
        \o "00"

\* reading endDate.year of null or undefined is a TypeError
formatUntilDate(endDate, endTime) ==
    IF endDate \in {Null, Undefined}
    THEN Throw("Cannot read properties of " \o endDate.t \o " (reading 'year')")
    ELSE Str(NatToString(endDate.year) \o padStart2(NatToString(endDate.month))
             \o padStart2(NatToString(endDate.day)) \o "T235959Z")

\* date: the UTC fields of a Date
formatTimestamp(date) ==
    NatToString(date.year) \o padStart2(NatToString(date.month))
        \o padStart2(NatToString(date.day)) \o "T"
        \o padStart2(NatToString(date.hours)) \o padStart2(NatToString(date.minutes))
        \o padStart2(NatToString(date.seconds)) \o "Z"

\* A 32-bit integer is kept as its two unsigned 16-bit halves.
Half == 65536

\* one round of the loop: hash = ((hash << 5) - hash) + char, cut to 32 bits
hashStep(h, c) ==
    LET lo == 31 * h.lo + c
        hi == 31 * h.hi + (lo \div Half)
    IN  [hi |-> hi % Half, lo |-> lo % Half]

RECURSIVE hashLoop(_, _)
hashLoop(str, h) ==
    IF str = "" THEN h ELSE hashLoop(Tail(str), hashStep(h, charCode(Head(str))))

\* Math.abs of the signed 32-bit value
absInt32(h) ==
    IF h.hi < 32768 THEN h
    ELSE IF h.lo = 0 THEN [hi |-> Half - h.hi, lo |-> 0]
    ELSE [hi |-> Half - 1 - h.hi, lo |-> Half - h.lo]

HexChars == "0123456789abcdef"

RECURSIVE NatToHex(_)
NatToHex(n) ==
    IF n < 16 THEN Ch(HexChars, n + 1)
    ELSE NatToHex(n \div 16) \o Ch(HexChars, (n % 16) + 1)

\* the four hexadecimal digits of a half
Hex4(n) ==
    Ch(HexChars, (n \div 4096) + 1) \o Ch(HexChars, ((n \div 256) % 16) + 1)
        \o Ch(HexChars, ((n \div 16) % 16) + 1) \o Ch(HexChars, (n % 16) + 1)

\* n.toString(16)
toHex(h) == IF h.hi = 0 THEN NatToHex(h.lo) ELSE NatToHex(h.hi) \o Hex4(h.lo)

simpleHash(str) == toHex(absInt32(hashLoop(str, [hi |-> 0, lo |-> 0])))

\* event.startTime?.hours in a template literal
OptField(obj, f) == IF obj \in {Null, Undefined} THEN "undefined" ELSE NatToString(obj[f])

generateUID(event) ==
    LET base == event.courseCode \o "-" \o ToText(event.section) \o "-"
                    \o join(event.days, "") \o "-"
                    \o OptField(event.startTime, "hours")
                    \o OptField(event.startTime, "minutes")
    IN  simpleHash(base) \o "@ubc-workday-calendar"

\* text.replace(/c/g, to) for a one-character pattern
RECURSIVE replaceChar(_, _, _)
replaceChar(s, c, to) ==
    IF Len(s) = 0 THEN ""
    ELSE IF Len(s) = 1 THEN (IF s = c THEN to ELSE s)
    ELSE replaceChar(SubSeq(s, 1, Len(s) \div 2), c, to)
            \o replaceChar(SubSeq(s, (Len(s) \div 2) + 1, Len(s)), c, to)

escapeText(text) ==
    replaceChar(replaceChar(replaceChar(replaceChar(text,
        "\\", "\\\\"), ";", "\\;"), ",", "\\,"), "\n", "\\n")

\* foldLine: the 75-octet folding; no function of the generator calls it
maxLen == 75

RECURSIVE foldLoop(_, _)
foldLoop(result, remaining) ==
    IF Len(remaining) > maxLen
    THEN foldLoop(Append(result, SubSeq(remaining, 1, maxLen)),
                  " " \o SubSeq(remaining, maxLen + 1, Len(remaining)))
    ELSE Append(result, remaining)

foldLine(line) ==
    IF Len(line) <= maxLen THEN line ELSE join(foldLoop(<<>>, line), "\r\n")

generateTimezone ==
    "BEGIN:VTIMEZONE\nTZID:America/Vancouver\nBEGIN:DAYLIGHT\nTZOFFSETFROM:-0800\n"
    \o "TZOFFSETTO:-0700\nTZNAME:PDT\nDTSTART:19700308T020000\n"
    \o "RRULE:FREQ=YEARLY;BYMONTH=3;BYDAY=2SU\nEND:DAYLIGHT\nBEGIN:STANDARD\n"
    \o "TZOFFSETFROM:-0700\nTZOFFSETTO:-0800\nTZNAME:PST\nDTSTART:19701101T020000\n"
    \o "RRULE:FREQ=YEARLY;BYMONTH=11;BYDAY=1SU\nEND:STANDARD\nEND:VTIMEZONE"

\* the summary line's text
summaryOf(event) ==
    event.courseCode
        \o (IF Truthy(event.section) THEN " (" \o ToText(event.section) \o ")" ELSE "")
        \o (IF Truthy(event.format) THEN " - " \o ToText(event.format) ELSE "")

descPartsOf(event) ==
    (IF event.courseTitle # "" THEN <<event.courseTitle>> ELSE <<>>)
        \o (IF Truthy(event.instructor)
            THEN <<"Instructor: " \o ToText(event.instructor)>> ELSE <<>>)
        \o (IF Truthy(event.deliveryMode)
            THEN <<"Mode: " \o ToText(event.deliveryMode)>> ELSE <<>>)

\* generateEvent with the time of the call in the identifier
generateEventTimedUid(event, now) ==
    IF ~Truthy(event.startDate) \/ ~Truthy(event.startTime) \/ ~Truthy(event.endTime)
           \/ Len(event.days) = 0
    THEN Null
    ELSE
    LET firstDate == findFirstOccurrence(event.startDate, event.days)
    IN  IF ~Truthy(firstDate) THEN Null
        ELSE
        LET dtstart == formatDateTime(firstDate, event.startTime)
            dtend == formatDateTime(firstDate, event.endTime)
            until == formatUntilDate(event.endDate, event.endTime)
        IN  IF IsThrow(until) THEN until
            ELSE
            LET uid == formatTimestamp(now) \o "-" \o generateUID(event)
                description == join(descPartsOf(event), "\\n")
                rrule == "FREQ=WEEKLY;BYDAY=" \o join(event.days, ",") \o ";UNTIL=" \o until.v
                evLines ==
                    << "BEGIN:VEVENT",
                       "UID:" \o uid,
                       "DTSTAMP:" \o formatTimestamp(now),
                       "DTSTART;TZID=America/Vancouver:" \o dtstart,
                       "DTEND;TZID=America/Vancouver:" \o dtend,
                       "RRULE:" \o rrule,
                       "SUMMARY:" \o escapeText(summaryOf(event)) >>
                    \o (IF event.location # ""
                        THEN <<"LOCATION:" \o escapeText(event.location)>> ELSE <<>>)
                    \o (IF description # ""
                        THEN <<"DESCRIPTION:" \o escapeText(description)>> ELSE <<>>)
                    \o <<"END:VEVENT">>
            IN  Str(join(evLines, "\r\n"))

\* generateEvent; now is the value of new Date().  Null, Str(text) or Throw.
generateEvent(event, now) ==
    IF ~Truthy(event.startDate) \/ ~Truthy(event.startTime) \/ ~Truthy(event.endTime)
           \/ Len(event.days) = 0
    THEN Null
    ELSE
    LET firstDate == findFirstOccurrence(event.startDate, event.days)
    IN  IF ~Truthy(firstDate) THEN Null
        ELSE
        LET dtstart == formatDateTime(firstDate, event.startTime)
            dtend == formatDateTime(firstDate, event.endTime)
            until == formatUntilDate(event.endDate, event.endTime)
        IN  IF IsThrow(until) THEN until
            ELSE
            LET uid == generateUID(event)
                description == join(descPartsOf(event), "\\n")
                rrule == "FREQ=WEEKLY;BYDAY=" \o join(event.days, ",") \o ";UNTIL=" \o until.v
                evLines ==
                    << "BEGIN:VEVENT",
                       "UID:" \o uid,
                       "DTSTAMP:" \o formatTimestamp(now),
                       "DTSTART;TZID=America/Vancouver:" \o dtstart,
                       "DTEND;TZID=America/Vancouver:" \o dtend,
                       "RRULE:" \o rrule,
                       "SUMMARY:" \o escapeText(summaryOf(event)) >>
                    \o (IF event.location # ""
                        THEN <<"LOCATION:" \o escapeText(event.location)>> ELSE <<>>)
                    \o (IF description # ""
                        THEN <<"DESCRIPTION:" \o escapeText(description)>> ELSE <<>>)
                    \o <<"END:VEVENT">>
            IN  Str(join(evLines, "\r\n"))

(***************************************************************************)
(* WorkdayParser: the field parsers                                        *)
(***************************************************************************)
ReDigit == ReSet(Digit)
ReSpace == ReSet(Space)

\* /(\d{1,2}):(\d{2})\s*(AM|PM)?/
normalizeTimeRe ==
    ReSeq(<< ReGroup(1, ReRep(ReDigit, 1, 2)), ReLit(":"), ReGroup(2, ReRep(ReDigit, 2, 2)),
             ReStar(ReSpace), ReOpt(ReGroup(3, ReAlt(<<ReLit("AM"), ReLit("PM")>>))) >>)

\* normalizeTime: [hours, minutes], Null, or the TypeError of a cell that is no text
cleanedTime(upper) == IF includes(upper, ":") THEN upper ELSE upper \o ":00"

\* the hours and minutes of a match of normalizeTime's expression
timeOfMatch(m) ==
    IF m = Null THEN Null
    ELSE LET hours == parseInt(m.groups[1].v)
             period == m.groups[3]
         IN  [hours |-> IF period = Str("PM") /\ hours # 12 THEN hours + 12
                        ELSE IF period = Str("AM") /\ hours = 12 THEN 0
                        ELSE hours,
              minutes |-> parseInt(m.groups[2].v)]

normalizeTime(timeStr) ==
    IF ~Truthy(timeStr) THEN Null
    ELSE IF timeStr.t # "string" THEN Throw("timeStr.trim is not a function")
    ELSE timeOfMatch(match(cleanedTime(replaceAll(toUpperCase(trim(timeStr.v)),
                                                  ReLit("."), "")),
                           normalizeTimeRe, 3))

\* the i flag on a character set
CaseInsensitive(cs) == {ToLowerCh(c) : c \in cs} \cup {ToUpperCh(c) : c \in cs}

\* \s*[-to]+\s* under the i flag (the class also holds the en and the em dash,
\* which a string of this module cannot hold)
rangeSepRe ==
    ReSeq(<< ReStar(ReSpace), RePlus(ReSet(CaseInsensitive({"-", "t", "o"}))), ReStar(ReSpace) >>)

\* \d{1,2}(?::\d{2})?\s*(?:AM|PM|a\.m\.|p\.m\.)?
timeRe ==
    ReSeq(<< ReRep(ReDigit, 1, 2), ReOpt(ReSeq(<<ReLit(":"), ReRep(ReDigit, 2, 2)>>)),
             ReStar(ReSpace),
             ReOpt(ReAlt(<<ReLitI("AM"), ReLitI("PM"), ReLitI("a.m."), ReLitI("p.m.")>>)) >>)

timeRangeRe == ReSeq(<<ReGroup(1, timeRe), rangeSepRe, ReGroup(2, timeRe)>>)

timeRangeOfMatch(timeMatch) ==
    IF timeMatch # Null
    THEN [startTime |-> normalizeTime(timeMatch.groups[1]),
          endTime |-> normalizeTime(timeMatch.groups[2])]
    ELSE [startTime |-> Null, endTime |-> Null]

parseTimeRange(timeStr) == timeRangeOfMatch(match(timeStr, timeRangeRe, 2))

\* /(\d{4})-(\d{2})-(\d{2})/
isoDateRe ==
    ReSeq(<< ReGroup(1, ReRep(ReDigit, 4, 4)), ReLit("-"), ReGroup(2, ReRep(ReDigit, 2, 2)),
             ReLit("-"), ReGroup(3, ReRep(ReDigit, 2, 2)) >>)

\* /([A-Za-z]{3})[a-z]*\s+(\d{1,2})(?:,?\s+(\d{4}))?/i
textDateRe ==
    ReSeq(<< ReGroup(1, ReRep(ReSet(Alpha), 3, 3)), ReStar(ReSet(Alpha)), RePlus(ReSpace),
             ReGroup(2, ReRep(ReDigit, 1, 2)),
             ReOpt(ReSeq(<<ReOpt(ReLit(",")), RePlus(ReSpace),
                           ReGroup(3, ReRep(ReDigit, 4, 4))>>)) >>)

\* the strings Number() reads as a number, as far as the inputs go: blank, or
\* digits with an optional fraction, white space around them
numericRe ==
    ReSeq(<< ReBol, ReStar(ReSpace),
             ReOpt(ReSeq(<<RePlus(ReDigit), ReOpt(ReSeq(<<ReLit("."), ReStar(ReDigit)>>))>>)),
             ReStar(ReSpace), ReEol >>)

isNaN(s) == match(s, numericRe, 0) = Null

\* parseFloat(s), rounded down; -1 stands for NaN
parseFloatFloor(s) ==
    LET m == match(trimStart(s), ReSeq(<<ReBol, ReGroup(1, RePlus(ReDigit))>>), 1)
    IN  IF m = Null THEN -1 ELSE parseInt(m.groups[1].v)

monthNames ==
    << <<"jan", 1>>, <<"feb", 2>>, <<"mar", 3>>, <<"apr", 4>>, <<"may", 5>>, <<"jun", 6>>,
       <<"jul", 7>>, <<"aug", 8>>, <<"sep", 9>>, <<"oct", 10>>, <<"nov", 11>>, <<"dec", 12>> >>

\* monthNames[key], 0 for undefined
monthOfName(key) ==
    IF \E i \in 1..12 : monthNames[i][1] = key
    THEN monthNames[CHOOSE i \in 1..12 : monthNames[i][1] = key][2]
    ELSE 0

\* the day that serial 25569 counts from
SerialEpoch == 25569
\* serials at or below this are not taken for dates
SerialFloor == 20000

\* parseDate; thisYear is new Date().getFullYear()
\* the branches of parseDate: ISO, serial number, month name
dateOfIso(isoMatch) ==
    [year |-> parseInt(isoMatch.groups[1].v),
     month |-> parseInt(isoMatch.groups[2].v),
     day |-> parseInt(isoMatch.groups[3].v)]

dateOfSerial(serial) ==
    LET date == serial - SerialEpoch
    IN  [year |-> getFullYear(date), month |-> MonthOf(date), day |-> getDate(date)]

dateOfText(textMatch, thisYear) ==
    IF textMatch # Null /\ monthOfName(toLowerCase(textMatch.groups[1].v)) # 0
    THEN [year |-> IF Truthy(textMatch.groups[3])
                   THEN parseInt(textMatch.groups[3].v) ELSE thisYear,
          month |-> monthOfName(toLowerCase(textMatch.groups[1].v)),
          day |-> parseInt(textMatch.groups[2].v)]
    ELSE Null

\* every numeric string taken for a serial, whatever its value
dateOfMatchesNoFloor(str, isoMatch, thisYear) ==
    IF isoMatch # Null THEN dateOfIso(isoMatch)
    ELSE IF ~isNaN(str) THEN dateOfSerial(parseFloatFloor(str))
    ELSE dateOfText(match(str, textDateRe, 3), thisYear)

dateOfMatches(str, isoMatch, thisYear) ==
    IF isoMatch # Null THEN dateOfIso(isoMatch)
    ELSE IF ~isNaN(str) /\ parseFloatFloor(str) > SerialFloor
    THEN dateOfSerial(parseFloatFloor(str))
    ELSE dateOfText(match(str, textDateRe, 3), thisYear)

parseDate(dateStr, thisYear) ==
    IF ~Truthy(dateStr) THEN Null
    ELSE IF dateStr.t # "string" THEN Throw("dateStr.match is not a function")
    ELSE dateOfMatches(dateStr.v, match(dateStr.v, isoDateRe, 3), thisYear)

\* [A-Za-z]{3}\s+\d{1,2}(?:,?\s+\d{4})?|\d{4}-\d{2}-\d{2}
dateRe ==
    ReAlt(<< ReSeq(<< ReRep(ReSet(Alpha), 3, 3), RePlus(ReSpace), ReRep(ReDigit, 1, 2),
                      ReOpt(ReSeq(<<ReOpt(ReLit(",")), RePlus(ReSpace),
                                    ReRep(ReDigit, 4, 4)>>)) >>),
             ReSeq(<< ReRep(ReDigit, 4, 4), ReLit("-"), ReRep(ReDigit, 2, 2),
                      ReLit("-"), ReRep(ReDigit, 2, 2) >>) >>)

dateRangeRe == ReSeq(<<ReGroup(1, dateRe), rangeSepRe, ReGroup(2, dateRe)>>)

dateRangeOfMatch(m, thisYear) ==
    IF m # Null
    THEN [startDate |-> parseDate(m.groups[1], thisYear),
          endDate |-> parseDate(m.groups[2], thisYear)]
    ELSE [startDate |-> Null, endDate |-> Null]

parseDateRange(dateStr, thisYear) ==
    dateRangeOfMatch(match(dateStr, dateRangeRe, 2), thisYear)

\* the entries of dayMap, in the order the object literal lists them
dayMap ==
    << <<"m", "MO">>, <<"mo", "MO">>, <<"mon", "MO">>, <<"monday", "MO">>,
       <<"t", "TU">>, <<"tu", "TU">>, <<"tue", "TU">>, <<"tues", "TU">>, <<"tuesday", "TU">>,
       <<"w", "WE">>, <<"we", "WE">>, <<"wed", "WE">>, <<"wednesday", "WE">>,
       <<"th", "TH">>, <<"thu", "TH">>, <<"thur", "TH">>, <<"thurs", "TH">>,
       <<"thursday", "TH">>, <<"r", "TH">>,
       <<"f", "FR">>, <<"fri", "FR">>, <<"friday", "FR">>,
       <<"s", "SA">>, <<"sa", "SA">>, <<"sat", "SA">>, <<"saturday", "SA">>,
       <<"su", "SU">>, <<"sun", "SU">>, <<"sunday", "SU">> >>

\* the inner for-loop: the value of the first entry the token matches, "" for none
RECURSIVE dayOfToken(_, _)
dayOfToken(token, k) ==
    IF k > Len(dayMap) THEN ""
    ELSE IF token = dayMap[k][1] \/ (Len(token) > 1 /\ startsWith(token, dayMap[k][1]))
    THEN dayMap[k][2]
    ELSE dayOfToken(token, k + 1)

\* the outer for-loop over the tokens
RECURSIVE daysOfTokens(_, _)
daysOfTokens(tokens, days) ==
    IF Len(tokens) = 0 THEN days
    ELSE LET val == dayOfToken(Head(tokens), 1)
         IN  daysOfTokens(Tail(tokens),
                 IF val # "" /\ ~ArrIncludes(days, val) THEN Append(days, val) ELSE days)

\* parseDays: Arr(day codes), or the TypeError of a cell that is no text
parseDays(daysStr) ==
    IF ~Truthy(daysStr) THEN Arr(<<>>)
    ELSE IF daysStr.t # "string" THEN Throw("daysStr.toLowerCase is not a function")
    ELSE
    LET normalized == replaceAll(replaceAll(toLowerCase(daysStr.v),
                          ReSet({",", "|"}), " "), ReLit("."), "")
        tokens == split(normalized, RePlus(ReSpace))
    IN  Arr(daysOfTokens(tokens, <<>>))

(***************************************************************************)
(* WorkdayParser: patterns and rows                                        *)
(***************************************************************************)
\* a[i] for every element, through f
MapSeq(a, f(_)) == [i \in 1..Len(a) |-> f(a[i])]

\* /\b(Monday|Tuesday|...|Sa|Su)\b/gi
dayTokensRe ==
    ReSeq(<< ReWordBoundary,
             ReAlt(<< ReLitI("Monday"), ReLitI("Tuesday"), ReLitI("Wednesday"),
                      ReLitI("Thursday"), ReLitI("Friday"), ReLitI("Saturday"),
                      ReLitI("Sunday"), ReLitI("Mon"), ReLitI("Tue"), ReLitI("Wed"),
                      ReLitI("Thu"), ReLitI("Fri"), ReLitI("Sat"), ReLitI("Sun"),
                      ReLitI("Mo"), ReLitI("Tu"), ReLitI("We"), ReLitI("Th"),
                      ReLitI("Fr"), ReLitI("Sa"), ReLitI("Su") >>),
             ReWordBoundary >>)

\* /\|\s*([^|]+)$/
locationRe ==
    ReSeq(<<ReLit("|"), ReStar(ReSpace), ReGroup(1, RePlus(ReNot({"|"}))), ReEol>>)

\* /\b([A-Z0-9]{2,}\s+\d{2,})\b/
roomRe ==
    ReSeq(<< ReWordBoundary,
             ReGroup(1, ReSeq(<< ReRep(ReSet(Upper \cup Digit), 2, -1), RePlus(ReSpace),
                                 ReRep(ReDigit, 2, -1) >>)),
             ReWordBoundary >>)

\* { days, ...times, ...dates, location }
patternRecord(days, times, dates, location) ==
    [days |-> days,
     startTime |-> times.startTime, endTime |-> times.endTime,
     startDate |-> dates.startDate, endDate |-> dates.endDate,
     location |-> location]

\* the components parsePatternWithRegex makes of its five matches
patternOfMatches(dateMatch, timeMatch, dayMatches, locMatch, roomMatch, thisYear) ==
    patternRecord(
        IF Len(dayMatches) > 0 THEN parseDays(Str(join(dayMatches, " "))).v ELSE <<>>,
        IF timeMatch # Null
        THEN parseTimeRange(timeMatch.groups[1].v \o " - " \o timeMatch.groups[2].v)
        ELSE [startTime |-> Null, endTime |-> Null],
        IF dateMatch # Null
        THEN parseDateRange(dateMatch.groups[1].v \o " - " \o dateMatch.groups[2].v, thisYear)
        ELSE [startDate |-> Null, endDate |-> Null],
        trim(IF locMatch # Null THEN locMatch.groups[1].v
             ELSE IF roomMatch # Null THEN roomMatch.groups[1].v
             ELSE ""))

\* parsePatternWithRegex: always an object
parsePatternWithRegex(str, thisYear) ==
    patternOfMatches(match(str, dateRangeRe, 2), match(str, timeRangeRe, 2),
                     matchAll(str, dayTokensRe, 1), match(str, locationRe, 1),
                     match(str, roomRe, 1), thisYear)

\* the strict attempt of parseSinglePattern: the pattern, or Null for no result
strictResult(days, times, dates, loc) ==
    IF Len(days) > 0 THEN patternRecord(days, times, dates, loc) ELSE Null

patternOfParts(parts, thisYear) ==
    IF Len(parts) >= 2
    THEN strictResult(parseDays(Str(parts[1])).v,
                      parseTimeRange(parts[2]),
                      IF Len(parts) > 2 THEN parseDateRange(parts[3], thisYear)
                      ELSE [startDate |-> Null, endDate |-> Null],
                      IF Len(parts) > 3 THEN parts[4] ELSE "")
    ELSE Null

strictPattern(patternStr, thisYear) ==
    IF includes(patternStr, "|")
    THEN patternOfParts(MapSeq(split(patternStr, ReLit("|")), trim), thisYear)
    ELSE Null

\* if (!result) result = parsePatternWithRegex(patternStr)
orFuzzy(result, patternStr, thisYear) ==
    IF ~Truthy(result) THEN parsePatternWithRegex(patternStr, thisYear) ELSE result

parseSinglePattern(patternStr, thisYear) ==
    orFuzzy(strictPattern(patternStr, thisYear), patternStr, thisYear)

\* <br\s*\/?>
brRe == ReSeq(<<ReLit("<br"), ReStar(ReSpace), ReOpt(ReLit("/")), ReLit(">")>>)
brReI == ReSeq(<<ReLitI("<br"), ReStar(ReSpace), ReOpt(ReLit("/")), ReLit(">")>>)

\* /(?:<br\s*\/?>|\n){2,}|(?:\r\n){2,}|(?:\n\s*\n)/gi
blockSplitRe ==
    ReAlt(<< ReRep(ReAlt(<<brReI, ReLit("\n")>>), 2, -1),
             ReRep(ReLit("\r\n"), 2, -1),
             ReSeq(<<ReLit("\n"), ReStar(ReSpace), ReLit("\n")>>) >>)

cleanBlock(b) == trim(replaceAll(replaceAll(b, brRe, " "), ReLit("\n"), " "))

\* the pattern pushed for one block
pushedPattern(pattern, block) ==
    IF Truthy(pattern)
    THEN [days |-> pattern.days,
          startTime |-> pattern.startTime, endTime |-> pattern.endTime,
          startDate |-> pattern.startDate, endDate |-> pattern.endDate,
          location |-> pattern.location, raw |-> Str(block), error |-> Undefined]
    ELSE [days |-> <<>>, startTime |-> Null, endTime |-> Null,
          startDate |-> Null, endDate |-> Null,
          location |-> "", raw |-> Str(block), error |-> Bool(TRUE)]

patternOfBlock(block, thisYear) == pushedPattern(parseSinglePattern(block, thisYear), block)

\* the blocks parseMeetingPatterns cuts the cell into
patternBlocksOf(patternsStr) ==
    LET cleanStr == replaceAll(replaceAll(patternsStr, ReLit("&nbsp;"), " "),
                               ReLit("&amp;"), "&")
    IN  SelectSeq(MapSeq(split(cleanStr, blockSplitRe), cleanBlock), LAMBDA b : Len(b) > 0)

\* parseMeetingPatterns: the array of patterns
parseMeetingPatterns(patternsStr, thisYear) ==
    IF ~Truthy(patternsStr) \/ patternsStr.t # "string" \/ trim(patternsStr.v) = ""
    THEN <<>>
    ELSE LET fromBlock(b) == patternOfBlock(b, thisYear)
         IN  MapSeq(patternBlocksOf(patternsStr.v), fromBlock)

\* /^([A-Z]{2,4}\s*\d{3}[A-Z]?)\s*[-]\s*(.+)$/i (the class also holds the en
\* and the em dash)
courseTitleRe ==
    ReSeq(<< ReBol,
             ReGroup(1, ReSeq(<< ReRep(ReSet(Alpha), 2, 4), ReStar(ReSpace),
                                 ReRep(ReDigit, 3, 3), ReOpt(ReSet(Alpha)) >>)),
             ReStar(ReSpace), ReLit("-"), ReStar(ReSpace),
             ReGroup(2, RePlus(ReNot(LineTerminators))), ReEol >>)

\* parseCourseTitle: [code, title], or the TypeError of a cell that is no text
courseOfMatch(m, title) ==
    IF m # Null
    THEN [code |-> toUpperCase(trim(m.groups[1].v)), title |-> trim(m.groups[2].v)]
    ELSE [code |-> SubSeq(title, 1, IF Len(title) < 20 THEN Len(title) ELSE 20),
          title |-> title]

parseCourseTitle(title) ==
    IF ~Truthy(title) THEN [code |-> "Unknown", title |-> ""]
    ELSE IF title.t # "string" THEN Throw("title.match is not a function")
    ELSE courseOfMatch(match(title.v, courseTitleRe, 2), title.v)

\* A row is the sequence of its [k |-> column name, v |-> cell] in key order.
\* row[key]
rowGet(row, key) ==
    IF \E i \in 1..Len(row) : row[i].k = key
    THEN row[CHOOSE i \in 1..Len(row) : row[i].k = key].v
    ELSE Undefined

\* the keys loop of findColumnValue from key i on
RECURSIVE findColumnFrom(_, _, _)
findColumnFrom(row, possibleNames, i) ==
    IF i > Len(row) THEN Null
    ELSE IF \E n \in 1..Len(possibleNames) :
                trim(toLowerCase(row[i].k)) = toLowerCase(possibleNames[n])
    THEN row[i].v
    ELSE findColumnFrom(row, possibleNames, i + 1)

findColumnValue(row, possibleNames) == findColumnFrom(row, possibleNames, 1)

\* the first exception among the values, in order; Null for none
RECURSIVE firstThrow(_)
firstThrow(xs) ==
    IF Len(xs) = 0 THEN Null
    ELSE IF IsThrow(Head(xs)) THEN Head(xs) ELSE firstThrow(Tail(xs))

\* obj?.f
OptGet(obj, f) == IF obj \in {Null, Undefined} THEN Undefined ELSE obj[f]

\* the explicit columns of a row: globalDates, globalTimes, globalDays
startDateNames == <<"Start Date", "Meeting Start Date", "First Meeting Date">>
endDateNames == <<"End Date", "Meeting End Date", "Last Meeting Date">>
startTimeNames == <<"Start Time", "Meeting Start Time">>
endTimeNames == <<"End Time", "Meeting End Time">>
daysNames == <<"Days", "Meeting Days", "Day Pattern">>

\* globalDatesOf taking the dates in when either cell is filled
globalDatesOfEither(row, thisYear) ==
    IF Truthy(findColumnValue(row, startDateNames)) \/ Truthy(findColumnValue(row, endDateNames))
    THEN [startDate |-> parseDate(findColumnValue(row, startDateNames), thisYear),
          endDate |-> parseDate(findColumnValue(row, endDateNames), thisYear)]
    ELSE Null

\* the object of the two parsed dates, or the exception the first failing
\* parse threw
datesPair(sd, ed) ==
    IF IsThrow(sd) THEN sd ELSE IF IsThrow(ed) THEN ed
    ELSE [startDate |-> sd, endDate |-> ed]

timesPair(st, et) ==
    IF IsThrow(st) THEN st ELSE IF IsThrow(et) THEN et
    ELSE [startTime |-> st, endTime |-> et]

explicitDates(explicitStartDate, explicitEndDate, thisYear) ==
    IF Truthy(explicitStartDate) /\ Truthy(explicitEndDate)
    THEN datesPair(parseDate(explicitStartDate, thisYear),
                   parseDate(explicitEndDate, thisYear))
    ELSE Null

globalDatesOf(row, thisYear) ==
    explicitDates(findColumnValue(row, startDateNames), findColumnValue(row, endDateNames),
                  thisYear)

explicitTimes(explicitStartTime, explicitEndTime) ==
    IF Truthy(explicitStartTime) /\ Truthy(explicitEndTime)
    THEN timesPair(normalizeTime(explicitStartTime), normalizeTime(explicitEndTime))
    ELSE Null

globalTimesOf(row) ==
    explicitTimes(findColumnValue(row, startTimeNames), findColumnValue(row, endTimeNames))

explicitDaysOf(explicitDays) == IF Truthy(explicitDays) THEN parseDays(explicitDays) ELSE Null

globalDaysOf(row) == explicitDaysOf(findColumnValue(row, daysNames))

\* synthesizedPattern leaving the explicit times out
synthesizedPatternNoTimes(patterns, globalDays, globalDates, globalTimes, meetingPatterns) ==
    LET has == Len(patterns) > 0
        base(f) == IF has THEN patterns[1][f] ELSE Undefined
        baseDays == IF has THEN Arr(patterns[1].days) ELSE Undefined
    IN  [days |-> Or(Or(globalDays, baseDays), Arr(<<>>)).v,
         startTime |-> base("startTime"),
         endTime |-> base("endTime"),
         startDate |-> Or(OptGet(globalDates, "startDate"), base("startDate")),
         endDate |-> Or(OptGet(globalDates, "endDate"), base("endDate")),
         location |-> IF has /\ patterns[1].location # "" THEN patterns[1].location ELSE "",
         raw |-> meetingPatterns,
         error |-> Undefined]

\* the pattern synthesized from the explicit columns (lines 111-119)
synthesizedPattern(patterns, globalDays, globalDates, globalTimes, meetingPatterns) ==
    LET has == Len(patterns) > 0
        base(f) == IF has THEN patterns[1][f] ELSE Undefined
        baseDays == IF has THEN Arr(patterns[1].days) ELSE Undefined
    IN  [days |-> Or(Or(globalDays, baseDays), Arr(<<>>)).v,
         startTime |-> Or(OptGet(globalTimes, "startTime"), base("startTime")),
         endTime |-> Or(OptGet(globalTimes, "endTime"), base("endTime")),
         startDate |-> Or(OptGet(globalDates, "startDate"), base("startDate")),
         endDate |-> Or(OptGet(globalDates, "endDate"), base("endDate")),
         location |-> IF has /\ patterns[1].location # "" THEN patterns[1].location ELSE "",
         raw |-> meetingPatterns,
         error |-> Undefined]

\* mergedPattern with the explicit columns taking precedence
mergedPatternExplicitFirst(p, globalDays, globalDates, globalTimes) ==
    [p EXCEPT !.startDate = Or(OptGet(globalDates, "startDate"), p.startDate),
              !.endDate = Or(OptGet(globalDates, "endDate"), p.endDate),
              !.startTime = Or(OptGet(globalTimes, "startTime"), p.startTime),
              !.endTime = Or(OptGet(globalTimes, "endTime"), p.endTime),
              !.days = IF Truthy(globalDays) /\ Len(globalDays.v) > 0 THEN globalDays.v
                       ELSE p.days]

\* mergedPattern filling nothing in
mergedPatternKeep(p, globalDays, globalDates, globalTimes) == p

\* a pattern with the explicit columns merged in (lines 124-131)
mergedPattern(p, globalDays, globalDates, globalTimes) ==
    [p EXCEPT !.startDate = Or(p.startDate, OptGet(globalDates, "startDate")),
              !.endDate = Or(p.endDate, OptGet(globalDates, "endDate")),
              !.startTime = Or(p.startTime, OptGet(globalTimes, "startTime")),
              !.endTime = Or(p.endTime, OptGet(globalTimes, "endTime")),
              !.days = IF Len(p.days) > 0 THEN p.days
                       ELSE Or(globalDays, Arr(<<>>)).v]

\* the patterns of a row after the explicit columns are taken in (lines 105-132)
reconcile(patterns, globalDays, globalDates, globalTimes, meetingPatterns) ==
    IF Len(patterns) = 0 \/ (Len(patterns) = 1 /\ Truthy(patterns[1].error))
    THEN IF Truthy(globalDays) \/ Truthy(globalDates) \/ Truthy(globalTimes)
         THEN <<synthesizedPattern(patterns, globalDays, globalDates, globalTimes,
                                   meetingPatterns)>>
         ELSE patterns
    ELSE LET merge(p) == mergedPattern(p, globalDays, globalDates, globalTimes)
         IN  MapSeq(patterns, merge)

\* the event of one pattern (lines 138-152)
eventOf(row, courseInfo, pattern) ==
    [courseCode |-> courseInfo.code,
     courseTitle |-> courseInfo.title,
     section |-> Or(rowGet(row, "Section"), Str("")),
     format |-> Or(rowGet(row, "Instructional Format"), Str("")),
     deliveryMode |-> Or(rowGet(row, "Delivery Mode"), Str("")),
     instructor |-> Or(rowGet(row, "Instructor"), Str("")),
     days |-> pattern.days,
     startTime |-> pattern.startTime,
     endTime |-> pattern.endTime,
     startDate |-> pattern.startDate,
     endDate |-> pattern.endDate,
     location |-> pattern.location,
     raw |-> Or(pattern.raw, Or(rowGet(row, "Meeting Patterns"), Str("")))]

eventsOfPatterns(row, courseInfo, patterns) ==
    [i \in 1..Len(patterns) |-> eventOf(row, courseInfo, patterns[i])]

\* parseRow from line 101 on, unless one of the parses before it threw
rowResult(row, globalDates, globalTimes, globalDays, courseInfo, meetingPatterns, thisYear) ==
    IF firstThrow(<<globalDates, globalTimes, globalDays, courseInfo>>) # Null
    THEN firstThrow(<<globalDates, globalTimes, globalDays, courseInfo>>)
    ELSE Arr(eventsOfPatterns(row, courseInfo,
                 reconcile(parseMeetingPatterns(meetingPatterns, thisYear),
                           globalDays, globalDates, globalTimes, meetingPatterns)))

\* parseRow: Arr(events), or the exception it throws
parseRow(row, thisYear) ==
    rowResult(row, globalDatesOf(row, thisYear), globalTimesOf(row), globalDaysOf(row),
              parseCourseTitle(Or(rowGet(row, "Course Listing"), Str(""))),
              Or(rowGet(row, "Meeting Patterns"), Str("")), thisYear)

\* Object.values(row).some(v => v !== '')
someCellNotEmpty(row) == \E i \in 1..Len(row) : row[i].v # Str("")

\* the predicate of filterDataRows
isHeader(courseListing) ==
    courseListing.t = "string" /\ includes(toLowerCase(courseListing.v), "course listing")

isDataRow(row) ==
    IF isHeader(Or(rowGet(row, "Course Listing"), Str(""))) THEN FALSE
    ELSE someCellNotEmpty(row)

filterDataRows(rs) == SelectSeq(rs, isDataRow)

(***************************************************************************)
(* Bounds of the inputs                                                    *)
(***************************************************************************)
NumYears == 1
MaxEvents == 2

\* start dates: every year/month/day triple a parsed date can hold (parseDate
\* does not check the day against the month's length)
StartDates == [year : 2024..(2023 + NumYears), month : 1..12, day : 1..31]

\* every non-empty set of day codes, as an array in week order
DayLists ==
    {SelectSeq(DayCodes, LAMBDA d : d \in S) : S \in (SUBSET {DayCodes[i] : i \in 1..7}) \ {{}}}

\* new Date(): two instants a call can see
Nows ==
    { [year |-> 2024, month |-> 8, day |-> 30, hours |-> 17, minutes |-> 5, seconds |-> 9],
      [year |-> 2024, month |-> 8, day |-> 30, hours |-> 17, minutes |-> 5, seconds |-> 10] }

\* a valid event with every text field filled; the title is longer than a content
\* line may be and holds each character that escapeText rewrites
LongEvent ==
    [courseCode |-> "CPSC 110",
     courseTitle |-> "Computation, Programs, and Programming; models of computation "
                        \o "and design\\analysis of programs",
     section |-> Str("101"), format |-> Str("Lecture"),
     deliveryMode |-> Str("In Person"), instructor |-> Str("Kiczales, Gregor"),
     days |-> <<"TU", "TH">>,
     startTime |-> [hours |-> 9, minutes |-> 30],
     endTime |-> [hours |-> 11, minutes |-> 0],
     startDate |-> [year |-> 2024, month |-> 9, day |-> 3],
     endDate |-> [year |-> 2024, month |-> 12, day |-> 5],
     location |-> "ESB; Room 1012", raw |-> Str("")]

\* An event of each shape: every subset of the four date and time fields absent
\* (null in the first course, undefined in the second), days empty or not.
EventSamples ==
    { [courseCode |-> IF absent = Null THEN "CPSC 110" ELSE "MATH 200",
       courseTitle |-> IF absent = Null THEN "Computation, Programs" ELSE "",
       section |-> Str(IF absent = Null THEN "101" ELSE "L1A"),
       format |-> Str(IF absent = Null THEN "Lecture" ELSE "Laboratory"),
       deliveryMode |-> Str(IF absent = Null THEN "In Person" ELSE ""),
       instructor |-> Str(IF absent = Null THEN "" ELSE "Ada Lovelace"),
       days |-> IF hasDays THEN <<"MO", "WE">> ELSE <<>>,
       startTime |-> IF "startTime" \in gone THEN absent ELSE [hours |-> 10, minutes |-> 0],
       endTime |-> IF "endTime" \in gone THEN absent ELSE [hours |-> 11, minutes |-> 30],
       startDate |-> IF "startDate" \in gone THEN absent
                     ELSE [year |-> 2024, month |-> 9, day |-> 3],
       endDate |-> IF "endDate" \in gone THEN absent
                   ELSE [year |-> 2024, month |-> 12, day |-> 5],
       location |-> IF absent = Null THEN "Room 200" ELSE "",
       raw |-> Str("")] :
      absent \in {Null, Undefined},
      hasDays \in BOOLEAN,
      gone \in SUBSET {"startDate", "endDate", "startTime", "endTime"} }
    \cup {LongEvent}

EventLists == UNION {[1..n -> EventSamples] : n \in 0..MaxEvents}

NoCall == [fn |-> "none"]
NoValue == [t |-> "none"]

\* new Date().getFullYear() at the time of a call
ThisYears == 2024..(2023 + NumYears)

MaxRows == 2

\* calls of generateEvent on one event
MaxCalls == 2

\* reads of uploaded files in flight at one time
MaxReads == 2

Cell(k, v) == [k |-> k, v |-> v]

\* cells a time column can hold: text, or the number the sheet stores
TimeCells ==
    { Str("9:00 AM"), Str("10:30 am"), Str("14:00"), Str("2:00 p.m."), Str("12:00 AM"),
      Str("12:15 PM"), Str("9"), Str("9 PM"), Str("soon"), Str(""), Num(9),
      Str("2:00 PM"), Str("12:30 PM"), Str("12 am"), Str("23:59") }

\* cells a date column can hold
DateCells ==
    { Str("2024-09-03"), Str("2024-12-05"), Str("Sep 3"), Str("Dec 5, 2024"),
      Str("45538"), Str("TBD"), Str(""), Num(45538), Num(45630),
      Str("Sep 3, 2024"), Str("20000"), Str("20001"), Str("12345"), Str("25569"),
      Str("Foo 3"), Str("sept 12"), Str("JAN 31, 2025"), Str("next week") }

\* cells a days column can hold
DaysCells ==
    { Str("Mon Wed Fri"), Str("Tue, Fri"), Str("M W"), Str("Tue Thu"), Str("Sat Sun"),
      Str("n/a"), Str(""), Num(2),
      Str("Mon, Wed, Mon"), Str("R F S"), Str("Thurs. | Sunday"), Str("TBA"), Str("Su Sa") }

WellFormedCell == Str("Mon Wed | 10:00 - 11:00 | 2024-09-03 - 2024-12-05 | Room 200")

\* cells the Meeting Patterns column can hold
PatternCells ==
    { Str(""), Str("  "), Str("TBA"), WellFormedCell,
      Str("Tue Fri 2:00 PM - 3:30 PM ESB 1012"),
      Str("Fri | 9:00 - 10:00"),
      Str("Mon | 1:00 PM - 2:00 PM | Sep 3 - Dec 5, 2024\n\nonline"),
      Str("Wed | 3:00 PM - 4:00 PM<br><br>Thu 5:00 PM - 6:00 PM"),
      Num(7) }

\* rows for direct calls of parseRow: every combination of a Meeting Patterns
\* cell and explicit day, time and date columns, each absent, empty, text that
\* parses, text that does not, or numeric
PatternCols ==
    { <<>>,
      <<Cell("Meeting Patterns", Str(""))>>,
      <<Cell("Meeting Patterns", Str("TBA"))>>,
      <<Cell("Meeting Patterns", WellFormedCell)>>,
      <<Cell("Meeting Patterns", Str("Tue Fri 2:00 PM - 3:30 PM ESB 1012"))>>,
      <<Cell("Meeting Patterns", Str("Fri | 9:00 - 10:00"))>>,
      <<Cell("Meeting Patterns", Str("Mon | 1:00 PM - 2:00 PM | Sep 3 - Dec 5, 2024\n\nonline"))>>,
      <<Cell("Meeting Patterns", Num(7))>> }

DaysCols ==
    { <<>>,
      <<Cell("Days", Str(""))>>,
      <<Cell("Meeting Days", Str("Tue, Fri"))>>,
      <<Cell("Days", Str("n/a"))>>,
      <<Cell("Days", Num(2))>> }

TimeCols ==
    { <<>>,
      <<Cell("Meeting Start Time", Str("9:00 AM")), Cell("meeting end time ", Str("10:30 AM"))>>,
      <<Cell("Start Time", Str("9:00 AM")), Cell("End Time", Str(""))>>,
      <<Cell("Start Time", Str("soon")), Cell("End Time", Str("later"))>>,
      <<Cell("Start Time", Num(9)), Cell("End Time", Num(10))>> }

DateCols ==
    { <<>>,
      <<Cell("Start Date", Str("2024-09-10")), Cell("End Date", Str("2024-12-06"))>>,
      <<Cell("Start Date", Str("2024-09-10")), Cell("End Date", Str(""))>>,
      <<Cell("Start Date", Str("TBD")), Cell("End Date", Str("TBD"))>>,
      <<Cell("First Meeting Date", Str("Sep 10")), Cell("Last Meeting Date", Str("Dec 6"))>>,
      <<Cell("Start Date", Num(45538)), Cell("End Date", Num(45630))>> }

RowSamples ==
    { <<Cell("Course Listing", Str("CPSC 110 - Computation, Programs")),
        Cell("Section", Str("101")), Cell("Instructional Format", Str("Lecture"))>>
          \o pc1 \o dc \o tc \o dtc :
      pc1 \in PatternCols, dc \in DaysCols, tc \in TimeCols, dtc \in DateCols }
    \cup
    { <<Cell("Course Listing", Num(110)), Cell("Meeting Patterns", WellFormedCell)>>,
      <<Cell("Course Listing", Str("")), Cell("Meeting Patterns", WellFormedCell)>>,
      <<Cell("Course Listing", Str("Directed Studies in Computer Science")),
        Cell("Meeting Patterns", Str(""))>>,
      <<Cell("Course Listing", Str("CPSC 110 - Computation, Programs")),
        Cell("Meeting Patterns", Str("Mon Wed 2024-09-03 - 2024-12-05 ESB 1012"))>>,
      <<Cell("Course Listing", Str("CPSC 110 - Computation, Programs")),
        Cell("Meeting Patterns", Str("Tue | 25:00 - 26:30 | 2024-09-03 - 2024-12-05"))>>,
      <<Cell("Course Listing", Str("CPSC 110 - Computation, Programs")),
        Cell("Days", Str("Mon")), Cell("Start Time", Str("9:75")),
        Cell("End Time", Str("13:00 PM"))>> }

\* A sheet row: sheet_to_json with defval '' gives every row every column.
SheetRow(listing, patterns, days, startTime, endTime, startDate, endDate) ==
    << Cell("Course Listing", listing), Cell("Section", Str("101")),
       Cell("Instructional Format", Str("Lecture")), Cell("Delivery Mode", Str("")),
       Cell("Meeting Patterns", patterns), Cell("Instructor", Str("")),
       Cell("Days", days), Cell("Start Time", startTime), Cell("End Time", endTime),
       Cell("Start Date", startDate), Cell("End Date", endDate) >>

Blank == Str("")
Listing == Str("CPSC 110 - Computation, Programs")

\* the rows of the sheets parse is given
SheetRows ==
    { SheetRow(Listing, WellFormedCell, Blank, Blank, Blank, Blank, Blank),
      SheetRow(Listing, Str("TBA"), Str("Tue, Fri"), Str("9:00 AM"), Str("10:30 AM"),
               Blank, Blank),
      SheetRow(Listing, Str("TBA"), Str("Tue, Fri"), Str("9:00 AM"), Str("10:30 AM"),
               Str("2024-09-10"), Str("2024-12-06")),
      SheetRow(Listing, Str("TBA\n\nTBD"), Str("Tue, Fri"), Str("9:00 AM"), Str("10:30 AM"),
               Str("2024-09-10"), Str("2024-12-06")),
      SheetRow(Listing, Blank, Str("Mon"), Str("1:00 PM"), Str("2:00 PM"),
               Str("Sep 10"), Str("Dec 6")),
      SheetRow(Listing, Str("Fri | 9:00 - 10:00"), Blank, Blank, Blank,
               Num(45538), Num(45630)),
      SheetRow(Str("Course Listing"), Str("Meeting Patterns"), Str("Days"), Str("Start Time"),
               Str("End Time"), Str("Start Date"), Str("End Date")),
      SheetRow(Blank, Blank, Blank, Blank, Blank, Blank, Blank) }

RowLists == UNION {[1..n -> SheetRows] : n \in 0..MaxRows}

(***************************************************************************)
(* The page script (app.js): its state when the page has loaded            *)
(***************************************************************************)
\* the three sections are hidden until a handler shows them
AppInit ==
    /\ currentEvents = <<>>
    /\ currentFileName = "schedule"
    /\ reads = <<>>
    /\ hidden = [fileInfo |-> TRUE, previewSection |-> TRUE, errorSection |-> TRUE]
    /\ download = NoValue

(***************************************************************************)
(* Direct calls of findFirstOccurrence                                     *)
(***************************************************************************)
InitFirst ==
    /\ AppInit
    /\ pc = "first_call"
    /\ call = NoCall /\ ret = NoValue
    /\ genEvents = <<>> /\ genIdx = 0 /\ lines = <<>> /\ doc = NoValue
    /\ rows = <<>> /\ dataRows = <<>> /\ rowIdx = 0
    /\ events = <<>> /\ errors = <<>>

CallFindFirstOccurrence ==
    /\ pc = "first_call"
    /\ \E sd \in StartDates, ds \in DayLists :
          /\ call' = [fn |-> "findFirstOccurrence", startDate |-> sd, days |-> ds]
          /\ ret' = findFirstOccurrencePath(sd, ds)
    /\ pc' = "first_done"
    /\ UNCHANGED <<genEvents, genIdx, lines, doc,
                   rows, dataRows, rowIdx, events, errors>>
    /\ UNCHANGED appVars

NextFirst == CallFindFirstOccurrence

SpecFirst == InitFirst /\ [][NextFirst]_vars

(***************************************************************************)
(* generate(events)                                                        *)
(***************************************************************************)
InitGen ==
    /\ AppInit
    /\ pc = "gen_call"
    /\ call = NoCall /\ ret = NoValue
    /\ genEvents = <<>> /\ genIdx = 0 /\ lines = <<>> /\ doc = NoValue
    /\ rows = <<>> /\ dataRows = <<>> /\ rowIdx = 0
    /\ events = <<>> /\ errors = <<>>

\* entry: the lines array with the calendar header and the timezone
GenerateStart ==
    /\ pc = "gen_call"
    /\ \E evs \in EventLists : genEvents' = evs
    /\ lines' = << "BEGIN:VCALENDAR", "VERSION:2.0",
                   "PRODID:-//UBC Workday to Calendar//EN", "CALSCALE:GREGORIAN",
                   "METHOD:PUBLISH", "X-WR-CALNAME:UBC Class Schedule",
                   "X-WR-TIMEZONE:America/Vancouver", generateTimezone >>
    /\ genIdx' = 1
    /\ pc' = "gen_loop"
    /\ UNCHANGED <<call, ret, doc, rows, dataRows, rowIdx, events, errors>>
    /\ UNCHANGED appVars

\* one round of the for-loop; an exception of generateEvent leaves generate
GenerateStep ==
    /\ pc = "gen_loop"
    /\ genIdx <= Len(genEvents)
    /\ \E now \in Nows :
          LET vevent == generateEvent(genEvents[genIdx], now)
          IN  IF IsThrow(vevent)
              THEN /\ doc' = vevent
                   /\ pc' = "gen_thrown"
                   /\ UNCHANGED <<lines, genIdx>>
              ELSE /\ lines' = IF Truthy(vevent) THEN Append(lines, vevent.v) ELSE lines
                   /\ genIdx' = genIdx + 1
                   /\ UNCHANGED <<doc, pc>>
    /\ UNCHANGED <<call, ret, genEvents, rows, dataRows, rowIdx, events, errors>>
    /\ UNCHANGED appVars

GenerateReturn ==
    /\ pc = "gen_loop"
    /\ genIdx > Len(genEvents)
    /\ lines' = Append(lines, "END:VCALENDAR")
    /\ doc' = Str(join(lines', "\r\n"))
    /\ pc' = "gen_done"
    /\ UNCHANGED <<call, ret, genEvents, genIdx,
                   rows, dataRows, rowIdx, events, errors>>
    /\ UNCHANGED appVars

NextGen == GenerateStart \/ GenerateStep \/ GenerateReturn

SpecGen == InitGen /\ [][NextGen]_vars

(***************************************************************************)
(* Repeated calls of generateEvent on one event                            *)
(***************************************************************************)
InitEvent ==
    /\ AppInit
    /\ pc = "ev_start"
    /\ call = NoCall /\ ret = NoValue
    /\ genEvents = <<>> /\ genIdx = 0 /\ lines = <<>> /\ doc = NoValue
    /\ rows = <<>> /\ dataRows = <<>> /\ rowIdx = 0
    /\ events = <<>> /\ errors = <<>>

\* the event the calls are made on
PickEvent ==
    /\ pc = "ev_start"
    /\ \E e \in EventSamples : genEvents' = <<e>>
    /\ pc' = "ev_call"
    /\ UNCHANGED <<call, ret, genIdx, lines, doc, rows, dataRows, rowIdx, events, errors>>
    /\ UNCHANGED appVars

\* one call; lines collects what the calls returned, genIdx counts them
CallGenerateEvent ==
    /\ pc = "ev_call"
    /\ genIdx < MaxCalls
    /\ \E now \in Nows :
          /\ call' = [fn |-> "generateEvent", now |-> now]
          /\ ret' = generateEvent(genEvents[1], now)
          /\ lines' = Append(lines, ret')
    /\ genIdx' = genIdx + 1
    /\ UNCHANGED <<pc, genEvents, doc, rows, dataRows, rowIdx, events, errors>>
    /\ UNCHANGED appVars

NextEvent == PickEvent \/ CallGenerateEvent

SpecEvent == InitEvent /\ [][NextEvent]_vars

(***************************************************************************)
(* Direct calls of the parser's functions                                  *)
(***************************************************************************)
InitRow ==
    /\ AppInit
    /\ pc = "row_call"
    /\ call = NoCall /\ ret = NoValue
    /\ genEvents = <<>> /\ genIdx = 0 /\ lines = <<>> /\ doc = NoValue
    /\ rows = <<>> /\ dataRows = <<>> /\ rowIdx = 0
    /\ events = <<>> /\ errors = <<>>

CallNormalizeTime ==
    /\ pc = "row_call"
    /\ \E c \in TimeCells :
          /\ call' = [fn |-> "normalizeTime", cell |-> c]
          /\ ret' = normalizeTime(c)
    /\ pc' = "row_done"
    /\ UNCHANGED <<genEvents, genIdx, lines, doc, rows, dataRows, rowIdx, events, errors>>
    /\ UNCHANGED appVars

CallParseDate ==
    /\ pc = "row_call"
    /\ \E c \in DateCells, y \in ThisYears :
          /\ call' = [fn |-> "parseDate", cell |-> c, thisYear |-> y]
          /\ ret' = parseDate(c, y)
    /\ pc' = "row_done"
    /\ UNCHANGED <<genEvents, genIdx, lines, doc, rows, dataRows, rowIdx, events, errors>>
    /\ UNCHANGED appVars

CallParseDays ==
    /\ pc = "row_call"
    /\ \E c \in DaysCells :
          /\ call' = [fn |-> "parseDays", cell |-> c]
          /\ ret' = parseDays(c)
    /\ pc' = "row_done"
    /\ UNCHANGED <<genEvents, genIdx, lines, doc, rows, dataRows, rowIdx, events, errors>>
    /\ UNCHANGED appVars

CallParseMeetingPatterns ==
    /\ pc = "row_call"
    /\ \E c \in PatternCells, y \in ThisYears :
          /\ call' = [fn |-> "parseMeetingPatterns", cell |-> c, thisYear |-> y]
          /\ ret' = Arr(parseMeetingPatterns(c, y))
    /\ pc' = "row_done"
    /\ UNCHANGED <<genEvents, genIdx, lines, doc, rows, dataRows, rowIdx, events, errors>>
    /\ UNCHANGED appVars

CallParseRow ==
    /\ pc = "row_call"
    /\ \E r \in RowSamples, y \in ThisYears :
          /\ call' = [fn |-> "parseRow", row |-> r, thisYear |-> y]
          /\ ret' = parseRow(r, y)
    /\ pc' = "row_done"
    /\ UNCHANGED <<genEvents, genIdx, lines, doc, rows, dataRows, rowIdx, events, errors>>
    /\ UNCHANGED appVars

NextRow ==
    \/ CallNormalizeTime
    \/ CallParseDate
    \/ CallParseDays
    \/ CallParseMeetingPatterns
    \/ CallParseRow

SpecRow == InitRow /\ [][NextRow]_vars

(***************************************************************************)
(* parse(data): the rows of the first sheet, row by row                    *)
(***************************************************************************)
InitParse ==
    /\ AppInit
    /\ pc = "parse_call"
    /\ call = NoCall /\ ret = NoValue
    /\ genEvents = <<>> /\ genIdx = 0 /\ lines = <<>> /\ doc = NoValue
    /\ rows = <<>> /\ dataRows = <<>> /\ rowIdx = 0
    /\ events = <<>> /\ errors = <<>>

\* a sheet without rows: the early return
ParseNoData ==
    /\ pc = "parse_call"
    /\ \E y \in ThisYears : call' = [fn |-> "parse", thisYear |-> y]
    /\ rows' = <<>>
    /\ ret' = [events |-> <<>>, errors |-> <<"No data found in the spreadsheet">>]
    /\ pc' = "parse_done"
    /\ UNCHANGED <<genEvents, genIdx, lines, doc, dataRows, rowIdx, events, errors>>
    /\ UNCHANGED appVars

\* entry with rows: filterDataRows and the two empty arrays
ParseStart ==
    /\ pc = "parse_call"
    /\ \E rs \in RowLists \ {<<>>}, y \in ThisYears :
          /\ call' = [fn |-> "parse", thisYear |-> y]
          /\ rows' = rs
          /\ dataRows' = filterDataRows(rs)
    /\ events' = <<>>
    /\ errors' = <<>>
    /\ rowIdx' = 1
    /\ pc' = "parse_loop"
    /\ UNCHANGED <<ret, genEvents, genIdx, lines, doc>>
    /\ UNCHANGED appVars

\* ParseRowStep leaving the loop at the first exception
RowOutcomeAbort(rowEvents) ==
    IF IsThrow(rowEvents)
    THEN /\ errors' = Append(errors, "Error parsing row: " \o rowEvents.msg)
         /\ rowIdx' = Len(dataRows) + 1
         /\ UNCHANGED events
    ELSE /\ events' = events \o rowEvents.v
         /\ rowIdx' = rowIdx + 1
         /\ UNCHANGED errors

ParseRowStepAbort ==
    /\ pc = "parse_loop"
    /\ rowIdx <= Len(dataRows)
    /\ RowOutcomeAbort(parseRow(dataRows[rowIdx], call.thisYear))
    /\ UNCHANGED <<pc, call, ret, genEvents, genIdx, lines, doc, rows, dataRows>>
    /\ UNCHANGED appVars

\* the body of the try, or the catch
RowOutcome(rowEvents) ==
    IF IsThrow(rowEvents)
    THEN /\ errors' = Append(errors, "Error parsing row: " \o rowEvents.msg)
         /\ UNCHANGED events
    ELSE /\ events' = events \o rowEvents.v
         /\ UNCHANGED errors

\* one round of the for-loop: try parseRow, catch its exception
ParseRowStep ==
    /\ pc = "parse_loop"
    /\ rowIdx <= Len(dataRows)
    /\ RowOutcome(parseRow(dataRows[rowIdx], call.thisYear))
    /\ rowIdx' = rowIdx + 1
    /\ UNCHANGED <<pc, call, ret, genEvents, genIdx, lines, doc, rows, dataRows>>
    /\ UNCHANGED appVars

ParseReturn ==
    /\ pc = "parse_loop"
    /\ rowIdx > Len(dataRows)
    /\ ret' = [events |-> events, errors |-> errors]
    /\ pc' = "parse_done"
    /\ UNCHANGED <<call, genEvents, genIdx, lines, doc,
                   rows, dataRows, rowIdx, events, errors>>
    /\ UNCHANGED appVars

NextParse == ParseNoData \/ ParseStart \/ ParseRowStep \/ ParseReturn

SpecParse == InitParse /\ [][NextParse]_vars

(***************************************************************************)
(* The page script (app.js): uploads, reads in flight, downloads, resets   *)
(***************************************************************************)
\* /\.(xlsx|xls)$/i
fileExtRe == ReSeq(<<ReLit("."), ReAlt(<<ReLitI("xlsx"), ReLitI("xls")>>), ReEol>>)

\* file.name.replace(/\.(xlsx|xls)$/i, '')
fileStem(name) == replaceAll(name, fileExtRe, "")

\* the filter of downloadICS
isValid(e) == Len(e.days) > 0 /\ Truthy(e.startTime) /\ Truthy(e.endTime)

\* showError(message)
showError(h) == [h EXCEPT !.errorSection = FALSE, !.previewSection = TRUE]

\* a[i] taken out
RemoveAt(a, i) == SubSeq(a, 1, i - 1) \o SubSeq(a, i + 1, Len(a))

\* The files a user can drop. A file is its name and what WorkdayParser.parse
\* returns for its content: events and errors, or the exception of a file that
\* is no workbook.
FallFile ==
    [name |-> "fall.xlsx", result |-> [events |-> <<LongEvent>>, errors |-> <<>>]]

WinterFile ==
    [name |-> "Winter.XLS",
     result |-> [events |-> << [LongEvent EXCEPT !.courseCode = "MATH 200"],
                               [LongEvent EXCEPT !.courseCode = "MATH 221",
                                                 !.startTime = Null, !.endTime = Null] >>,
                 errors |-> <<>>]]

\* one event without an end date: generate throws on it
LabFile ==
    [name |-> "lab.xlsx",
     result |-> [events |-> << [LongEvent EXCEPT !.courseCode = "CPSC 121",
                                                 !.endDate = Undefined] >>,
                 errors |-> <<>>]]

\* one event without times: nothing to download
DraftFile ==
    [name |-> "draft.xlsx",
     result |-> [events |-> << [LongEvent EXCEPT !.courseCode = "CPSC 210",
                                                 !.startTime = Null, !.endTime = Null] >>,
                 errors |-> <<>>]]

Files ==
    { FallFile, WinterFile, LabFile, DraftFile,
      [name |-> "empty.xlsx",
       result |-> [events |-> <<>>, errors |-> <<"No data found in the file">>]],
      [name |-> "broken.xlsx", result |-> Throw("File is not a workbook")],
      [name |-> "notes.txt", result |-> Throw("File is not a workbook")] }

InitApp ==
    /\ AppInit
    /\ pc = "app"
    /\ call = NoCall /\ ret = NoValue
    /\ genEvents = <<>> /\ genIdx = 0 /\ lines = <<>> /\ doc = NoValue
    /\ rows = <<>> /\ dataRows = <<>> /\ rowIdx = 0
    /\ events = <<>> /\ errors = <<>>

\* handleFile(file) up to await readFile(file): the name is stored, the read is
\* started; what follows the await runs when the read has ended
HandleFile ==
    /\ Len(reads) < MaxReads
    /\ \E file \in Files :
          IF match(file.name, fileExtRe, 0) = Null
          THEN /\ hidden' = showError(hidden)
               /\ UNCHANGED <<currentEvents, currentFileName, reads, download>>
          ELSE /\ currentFileName' = fileStem(file.name)
               /\ hidden' = [hidden EXCEPT !.fileInfo = FALSE]
               /\ reads' = Append(reads, file)
               /\ UNCHANGED <<currentEvents, download>>
    /\ UNCHANGED libVars

\* reader.onload of one of the reads in flight: handleFile goes on after the await
ReadDone ==
    /\ \E i \in 1..Len(reads) :
          /\ reads' = RemoveAt(reads, i)
          /\ IF IsThrow(reads[i].result)
             THEN /\ hidden' = showError(hidden)
                  /\ UNCHANGED currentEvents
             ELSE IF Len(reads[i].result.events) = 0
             THEN /\ hidden' = showError(hidden)
                  /\ UNCHANGED currentEvents
             ELSE /\ currentEvents' = reads[i].result.events
                  /\ hidden' = [hidden EXCEPT !.previewSection = FALSE,
                                              !.errorSection = TRUE]
    /\ UNCHANGED <<currentFileName, download>>
    /\ UNCHANGED libVars

\* reader.onerror of one of the reads in flight: the catch of handleFile
ReadFailed ==
    /\ \E i \in 1..Len(reads) : reads' = RemoveAt(reads, i)
    /\ hidden' = showError(hidden)
    /\ UNCHANGED <<currentEvents, currentFileName, download>>
    /\ UNCHANGED libVars

\* what downloadICS does with the valid events: the user may refuse when some
\* events are left out; an exception of generate is caught; the download is
\* recorded as its file name and the events generate was given
downloadOutcome(validEvents, confirmed, thrown) ==
    IF Len(validEvents) = 0
    THEN /\ hidden' = showError(hidden)
         /\ UNCHANGED download
    ELSE IF Len(validEvents) < Len(currentEvents) /\ ~confirmed
    THEN UNCHANGED <<hidden, download>>
    ELSE IF thrown
    THEN /\ hidden' = showError(hidden)
         /\ UNCHANGED download
    ELSE /\ download' = [name |-> currentFileName \o ".ics", events |-> validEvents]
         /\ UNCHANGED hidden

DownloadICS ==
    /\ \E confirmed \in BOOLEAN, now \in Nows :
          downloadOutcome(SelectSeq(currentEvents, isValid), confirmed,
              \E i \in 1..Len(currentEvents) :
                  isValid(currentEvents[i]) /\ IsThrow(generateEvent(currentEvents[i], now)))
    /\ UNCHANGED <<currentEvents, currentFileName, reads>>
    /\ UNCHANGED libVars

ResetState ==
    /\ currentEvents' = <<>>
    /\ currentFileName' = "schedule"
    /\ hidden' = [fileInfo |-> TRUE, previewSection |-> TRUE, errorSection |-> TRUE]
    /\ UNCHANGED <<reads, download>>
    /\ UNCHANGED libVars

NextApp == HandleFile \/ ReadDone \/ ReadFailed \/ DownloadICS \/ ResetState

SpecApp == InitApp /\ [][NextApp]_vars

(***************************************************************************)
(* Reference definitions the properties are stated with                    *)
(***************************************************************************)
\* the day number of a civil date, by the era/day-of-era computation
DaysFromCivil(y, m, d) ==
    LET yy == IF m <= 2 THEN y - 1 ELSE y
        era == yy \div 400
        yoe == yy - era * 400
        mp == IF m > 2 THEN m - 3 ELSE m + 9
        doy == ((153 * mp + 2) \div 5) + d - 1
        doe == yoe * 365 + (yoe \div 4) - (yoe \div 100) + doy
    IN  era * 146097 + doe - 719468

\* a day past the month's end counts on into the next month
RefDayNumber(date) == DaysFromCivil(date.year, date.month, 1) + date.day - 1

RefMonthLength(y, m) ==
    IF m = 12 THEN DaysFromCivil(y + 1, 1, 1) - DaysFromCivil(y, 12, 1)
    ELSE DaysFromCivil(y, m + 1, 1) - DaysFromCivil(y, m, 1)

RefValidDate(date) ==
    date.month \in 1..12 /\ date.day \in 1..RefMonthLength(date.year, date.month)

\* the weekday of a day number, counted from Sunday 2024-09-01
RefWeekday(n) == DayCodes[((n - DaysFromCivil(2024, 9, 1)) % 7) + 1]

SeqToSet(a) == {a[i] : i \in 1..Len(a)}

\* s split at every CR LF
RECURSIVE SplitCRLF(_)
SplitCRLF(s) ==
    IF \E i \in 1..Len(s) : StartsWithAt(s, i, "\r\n")
    THEN LET i == CHOOSE k \in 1..Len(s) :
                      /\ StartsWithAt(s, k, "\r\n")
                      /\ \A j \in 1..(k - 1) : ~StartsWithAt(s, j, "\r\n")
         IN  <<SubSeq(s, 1, i - 1)>> \o SplitCRLF(SubSeq(s, i + 2, Len(s)))
    ELSE <<s>>

\* the places of a[i] = x
IndicesOf(a, x) == {i \in 1..Len(a) : a[i] = x}

\* the elements of a set of numbers in increasing order
RECURSIVE Sorted(_)
Sorted(S) ==
    IF S = {} THEN <<>>
    ELSE LET m == CHOOSE x \in S : \A y \in S : x <= y
         IN  <<m>> \o Sorted(S \ {m})

\* the events the claims call encodable
HasRequiredFields(e) ==
    /\ e.startDate \notin {Null, Undefined}
    /\ e.startTime \notin {Null, Undefined}
    /\ e.endTime \notin {Null, Undefined}
    /\ Len(e.days) > 0

Absent(x) == x \in {Null, Undefined}

\* a cell that holds text (an absent column reads as Null)
NonEmptyText(c) == c # Null /\ c.t = "string" /\ c.v # ""
TextOrAbsent(c) == c = Null \/ c.t = "string"

listingOf(row) == Or(rowGet(row, "Course Listing"), Str(""))
patternCellOf(row) == Or(rowGet(row, "Meeting Patterns"), Str(""))
patternsOfRow(row, thisYear) == parseMeetingPatterns(patternCellOf(row), thisYear)

\* the Course Listing and the explicit day, time and date cells are text
TextRow(row) ==
    /\ listingOf(row).t = "string"
    /\ \A names \in {daysNames, startTimeNames, endTimeNames, startDateNames, endDateNames} :
          TextOrAbsent(findColumnValue(row, names))

\* what the explicit columns supply: the parsed cell, or Null
RefDays(row) ==
    LET c == findColumnValue(row, daysNames)
    IN  IF NonEmptyText(c) THEN parseDays(c) ELSE Null

RefField(row, thisYear, f) ==
    LET st == findColumnValue(row, startTimeNames)
        et == findColumnValue(row, endTimeNames)
        sd == findColumnValue(row, startDateNames)
        ed == findColumnValue(row, endDateNames)
    IN  CASE f = "startTime" ->
               IF NonEmptyText(st) /\ NonEmptyText(et) THEN normalizeTime(st) ELSE Null
          [] f = "endTime" ->
               IF NonEmptyText(st) /\ NonEmptyText(et) THEN normalizeTime(et) ELSE Null
          [] f = "startDate" ->
               IF NonEmptyText(sd) /\ NonEmptyText(ed) THEN parseDate(sd, thisYear) ELSE Null
          [] f = "endDate" ->
               IF NonEmptyText(sd) /\ NonEmptyText(ed) THEN parseDate(ed, thisYear) ELSE Null

TimeAndDateFields == {"startTime", "endTime", "startDate", "endDate"}

\* a pattern in which no day, no time and no date was found
NothingFound(p) ==
    /\ Len(p.days) = 0
    /\ \A f \in TimeAndDateFields : p[f] = Null

Flagged(p) == p.error = Bool(TRUE)

\* the condition of parseRow's first branch, and of its else branch
SynthesisCase(ps) == Len(ps) = 0 \/ (Len(ps) = 1 /\ Flagged(ps[1]))
MergeCase(ps) == Len(ps) >= 2 \/ (Len(ps) = 1 /\ ~Flagged(ps[1]))

\* the events and the messages parse owes for a list of data rows: a row
\* that fails adds its message, any other row adds its events
Collected(acc, r) ==
    IF IsThrow(r) THEN [acc EXCEPT !.errors = Append(@, "Error parsing row: " \o r.msg)]
    ELSE [acc EXCEPT !.events = @ \o r.v]

RECURSIVE ExpectedFrom(_, _, _)
ExpectedFrom(rs, thisYear, acc) ==
    IF Len(rs) = 0 THEN acc
    ELSE ExpectedFrom(Tail(rs), thisYear, Collected(acc, parseRow(Head(rs), thisYear)))

Expected(rs, thisYear) == ExpectedFrom(rs, thisYear, [events |-> <<>>, errors |-> <<>>])

\* a row whose Meeting Patterns cell is one block with days, times and dates
WellFormedRow(row, thisYear) ==
    LET ps == patternsOfRow(row, thisYear)
    IN  /\ TextRow(row)
        /\ Len(ps) = 1
        /\ Len(ps[1].days) > 0
        /\ \A f \in TimeAndDateFields : ps[1][f] # Null

\* a row whose Meeting Patterns cell has text in which nothing is found
UnparseableCellRow(row, thisYear) ==
    LET ps == patternsOfRow(row, thisYear)
    IN  /\ TextRow(row)
        /\ Len(ps) >= 1
        /\ \A i \in 1..Len(ps) : NothingFound(ps[i])

\* explicit Days, Start Time and End Time cells that are filled and parse
ExplicitDaysAndTimes(row, thisYear) ==
    /\ RefDays(row) # Null
    /\ Len(RefDays(row).v) > 0
    /\ RefField(row, thisYear, "startTime") # Null
    /\ RefField(row, thisYear, "endTime") # Null

ExplicitDates(row, thisYear) ==
    /\ RefField(row, thisYear, "startDate") # Null
    /\ RefField(row, thisYear, "endDate") # Null

Encodable(e) == \A now \in Nows : generateEvent(e, now).t = "string"

(***************************************************************************)
(* Properties                                                              *)
(***************************************************************************)

\* C1: generate never fails: whatever fields the events lack, it raises no
\* exception and returns a calendar document.
C1_GenerateNeverFails ==
    /\ pc # "gen_thrown"
    /\ pc = "gen_done" => doc.t = "string"

\* C2: the returned document starts with BEGIN:VCALENDAR, ends with
\* END:VCALENDAR, holds exactly one timezone block and, after it, exactly one
\* VEVENT block per input event that has a start date, a start time, an end
\* time and days, in input order, and none for any other event.
C2_DocumentStructure ==
    pc \in {"gen_done", "gen_thrown"} =>
        /\ doc.t = "string"
        /\ LET ls == SplitCRLF(doc.v)
               enc == SelectSeq(genEvents, HasRequiredFields)
               tz == IndicesOf(ls, generateTimezone)
               begins == Sorted(IndicesOf(ls, "BEGIN:VEVENT"))
               ends == Sorted(IndicesOf(ls, "END:VEVENT"))
           IN  /\ ls[1] = "BEGIN:VCALENDAR"
               /\ ls[Len(ls)] = "END:VCALENDAR"
               /\ Cardinality(tz) = 1
               /\ Len(begins) = Len(enc)
               /\ Len(ends) = Len(enc)
               /\ \A k \in 1..Len(enc) :
                     /\ \A t \in tz : t < begins[k]
                     /\ begins[k] < ends[k]
                     /\ k < Len(enc) => ends[k] < begins[k + 1]
                     /\ \E j \in (begins[k] + 1)..(ends[k] - 1) :
                           ls[j] = "UID:" \o generateUID(enc[k])
                     /\ \E j \in (begins[k] + 1)..(ends[k] - 1) :
                           ls[j] = "SUMMARY:" \o escapeText(summaryOf(enc[k]))

\* C3: for every start date and non-empty set of day codes findFirstOccurrence
\* returns, from inside its loop (never by the fallback), the earliest date d
\* with startDate <= d <= startDate + 6 whose weekday is in the set; month and
\* year ends are crossed; ({2024,9,1}, [MO,WE]) gives {2024,9,2}.
C3_FirstOccurrence ==
    call.fn = "findFirstOccurrence" =>
        LET s == RefDayNumber(call.startDate)
            r == ret.value
            wanted == SeqToSet(call.days)
        IN  /\ ret.via = "loop"
            /\ RefValidDate(r)
            /\ RefDayNumber(r) \in s..(s + 6)
            /\ RefWeekday(RefDayNumber(r)) \in wanted
            /\ \A k \in s..(RefDayNumber(r) - 1) : RefWeekday(k) \notin wanted
            /\ (call.startDate = [year |-> 2024, month |-> 9, day |-> 1]
                    /\ call.days = <<"MO", "WE">>)
                => r = [year |-> 2024, month |-> 9, day |-> 2]

\* a call that scans six days on and crosses the end of the year
C3_Witness ==
    /\ call.fn = "findFirstOccurrence"
    /\ call.startDate.month = 12
    /\ ret.via = "loop" /\ ret.i = 6
    /\ ret.value.year = call.startDate.year + 1
    /\ ret.value.month = 1

\* C4, as stated: for a two-row sheet, one row well-formed and the other with
\* an unparseable Meeting Patterns cell but filled Days, Start Time and End
\* Time columns, parse returns two events, generateEvent encodes both, and the
\* second row's event has the days and times of the explicit columns.
C4_TwoRowsAsStated ==
    (pc = "parse_done" /\ Len(rows) = 2) =>
        \A i \in 1..2 :
            LET j == 3 - i
                y == call.thisYear
            IN  (/\ WellFormedRow(rows[i], y)
                 /\ UnparseableCellRow(rows[j], y)
                 /\ ExplicitDaysAndTimes(rows[j], y))
                => /\ Len(ret.events) = 2
                   /\ \A k \in 1..2 : Encodable(ret.events[k])
                   /\ ret.events[j].days = RefDays(rows[j]).v
                   /\ ret.events[j].startTime = RefField(rows[j], y, "startTime")
                   /\ ret.events[j].endTime = RefField(rows[j], y, "endTime")

\* C4, amended: when the unparseable cell is a single block and the second row
\* also has explicit Start Date and End Date cells that parse, parse returns
\* two events, generateEvent encodes both, and the second row's event has the
\* days, times and dates of the explicit columns.
C4_TwoRowsWithDates ==
    (pc = "parse_done" /\ Len(rows) = 2) =>
        \A i \in 1..2 :
            LET j == 3 - i
                y == call.thisYear
            IN  (/\ WellFormedRow(rows[i], y)
                 /\ UnparseableCellRow(rows[j], y)
                 /\ Len(patternsOfRow(rows[j], y)) = 1
                 /\ ExplicitDaysAndTimes(rows[j], y)
                 /\ ExplicitDates(rows[j], y))
                => /\ Len(ret.events) = 2
                   /\ ret.errors = <<>>
                   /\ \A k \in 1..2 : Encodable(ret.events[k])
                   /\ ret.events[j].days = RefDays(rows[j]).v
                   /\ \A f \in TimeAndDateFields :
                         ret.events[j][f] = RefField(rows[j], y, f)

\* a well-formed row followed by a row with TBA and all explicit columns
C4_Witness ==
    /\ pc = "parse_done" /\ Len(rows) = 2
    /\ WellFormedRow(rows[1], call.thisYear)
    /\ UnparseableCellRow(rows[2], call.thisYear)
    /\ Len(patternsOfRow(rows[2], call.thisYear)) = 1
    /\ ExplicitDaysAndTimes(rows[2], call.thisYear)
    /\ ExplicitDates(rows[2], call.thisYear)
    /\ Len(ret.events) = 2
    /\ ret.events[2].days = <<"TU", "FR">>
    /\ ret.events[2].startDate = [year |-> 2024, month |-> 9, day |-> 10]

\* C5: every block in which neither the pipe parse nor the fuzzy extraction
\* finds anything comes back from parseMeetingPatterns, without an exception,
\* as a pattern with error = true, empty days and absent times; no block is
\* dropped.
C5_UnparseableBlockIsFlagged ==
    (call.fn = "parseMeetingPatterns" /\ call.cell.t = "string") =>
        LET blocks == patternBlocksOf(call.cell.v)
            y == call.thisYear
        IN  /\ ret.t = "array"
            /\ Len(ret.v) = Len(blocks)
            /\ \A i \in 1..Len(blocks) :
                  (/\ strictPattern(blocks[i], y) = Null
                   /\ NothingFound(parsePatternWithRegex(blocks[i], y)))
                  => /\ ret.v[i].raw = Str(blocks[i])
                     /\ Flagged(ret.v[i])
                     /\ ret.v[i].days = <<>>
                     /\ ret.v[i].startTime = Null
                     /\ ret.v[i].endTime = Null

\* C6, as stated: when extraction gave no pattern, or one flagged pattern, and
\* at least one explicit day, date or time cell is filled (only a Start Date,
\* say), parseRow returns exactly one event.
C6_SynthesisAsStated ==
    (/\ call.fn = "parseRow"
     /\ TextRow(call.row)
     /\ SynthesisCase(patternsOfRow(call.row, call.thisYear))
     /\ \E names \in {daysNames, startTimeNames, endTimeNames, startDateNames, endDateNames} :
           NonEmptyText(findColumnValue(call.row, names)))
    => /\ ret.t = "array"
       /\ Len(ret.v) = 1

\* C6, amended: when extraction gave no pattern, or one flagged pattern, and the
\* Days cell is filled, or both date cells, or both time cells, parseRow returns
\* exactly one event; each of its day, time and date fields is the one the
\* explicit columns supply, and otherwise the flagged pattern's (absent when
\* there is no pattern).
C6_SynthesisFromExplicitColumns ==
    LET ps == patternsOfRow(call.row, call.thisYear)
        st == findColumnValue(call.row, startTimeNames)
        et == findColumnValue(call.row, endTimeNames)
        sd == findColumnValue(call.row, startDateNames)
        ed == findColumnValue(call.row, endDateNames)
    IN  (/\ call.fn = "parseRow"
         /\ TextRow(call.row)
         /\ SynthesisCase(ps)
         /\ \/ NonEmptyText(findColumnValue(call.row, daysNames))
            \/ NonEmptyText(sd) /\ NonEmptyText(ed)
            \/ NonEmptyText(st) /\ NonEmptyText(et))
        => /\ ret.t = "array"
           /\ Len(ret.v) = 1
           /\ ret.v[1].days = IF RefDays(call.row) # Null THEN RefDays(call.row).v
                              ELSE IF Len(ps) = 1 THEN ps[1].days ELSE <<>>
           /\ \A f \in TimeAndDateFields :
                 LET x == RefField(call.row, call.thisYear, f)
                 IN  IF x # Null THEN ret.v[1][f] = x
                     ELSE IF Len(ps) = 1 THEN ret.v[1][f] = ps[1][f]
                     ELSE Absent(ret.v[1][f])

\* an empty Meeting Patterns cell, explicit days and times, no dates
C6_Witness ==
    /\ call.fn = "parseRow"
    /\ TextRow(call.row)
    /\ patternsOfRow(call.row, call.thisYear) = <<>>
    /\ RefDays(call.row) = Arr(<<"TU", "FR">>)
    /\ RefField(call.row, call.thisYear, "startDate") = Null
    /\ ret.t = "array" /\ Len(ret.v) = 1
    /\ ret.v[1].startTime = [hours |-> 9, minutes |-> 0]
    /\ ret.v[1].endTime = [hours |-> 10, minutes |-> 30]
    /\ ret.v[1].startDate = Undefined

\* C7: in the merge case (two or more patterns, or one that is not flagged)
\* parseRow returns one event per pattern, in order; each day, time and date
\* field the pattern has is the event's, and a field the pattern lacks is the
\* one the explicit columns supply, if any.
C7_MergeKeepsPatternFields ==
    LET ps == patternsOfRow(call.row, call.thisYear)
    IN  (/\ call.fn = "parseRow"
         /\ TextRow(call.row)
         /\ MergeCase(ps))
        => /\ ret.t = "array"
           /\ Len(ret.v) = Len(ps)
           /\ \A i \in 1..Len(ps) :
                 /\ ret.v[i].days = IF Len(ps[i].days) > 0 THEN ps[i].days
                                    ELSE IF RefDays(call.row) # Null
                                    THEN RefDays(call.row).v ELSE <<>>
                 /\ \A f \in TimeAndDateFields :
                       LET x == RefField(call.row, call.thisYear, f)
                       IN  IF ps[i][f] # Null THEN ret.v[i][f] = ps[i][f]
                           ELSE IF x # Null THEN ret.v[i][f] = x
                           ELSE Absent(ret.v[i][f])
                 /\ ret.v[i].location = ps[i].location
                 /\ ret.v[i].raw = ps[i].raw

\* a pattern with days and times and no dates, explicit times that differ and
\* explicit dates: the event has the pattern's times and the explicit dates
C7_Witness ==
    LET ps == patternsOfRow(call.row, call.thisYear)
    IN  /\ call.fn = "parseRow"
        /\ TextRow(call.row)
        /\ Len(ps) = 1 /\ ~Flagged(ps[1])
        /\ ps[1].endTime = [hours |-> 10, minutes |-> 0]
        /\ ps[1].startDate = Null
        /\ RefDays(call.row) = Arr(<<"TU", "FR">>)
        /\ RefField(call.row, call.thisYear, "endTime") = [hours |-> 10, minutes |-> 30]
        /\ RefField(call.row, call.thisYear, "startDate") = [year |-> 2024, month |-> 9, day |-> 10]
        /\ ret.t = "array" /\ Len(ret.v) = 1
        /\ ret.v[1].days = <<"FR">>
        /\ ret.v[1].endTime = [hours |-> 10, minutes |-> 0]
        /\ ret.v[1].startDate = [year |-> 2024, month |-> 9, day |-> 10]

\* C8, as stated: parseRow returns the empty list, without an exception, for
\* every row whose Meeting Patterns text yields no day, no time and no date and
\* whose explicit day, date and time cells are absent, empty or unparseable.
C8_NoUsablePatternAsStated ==
    LET ps == patternsOfRow(call.row, call.thisYear)
        days == RefDays(call.row)
    IN  (/\ call.fn = "parseRow"
         /\ TextRow(call.row)
         /\ \A i \in 1..Len(ps) : NothingFound(ps[i])
         /\ days = Null \/ days.v = <<>>
         /\ \A f \in TimeAndDateFields : RefField(call.row, call.thisYear, f) = Null)
        => ret = Arr(<<>>)

\* C8, amended: parseRow returns the empty list, without an exception, for
\* every row whose Meeting Patterns cell is absent, blank or not text, whose
\* Days cell is absent or empty, and in which not both date cells and not both
\* time cells are filled.
C8_NoPatternNoExplicitData ==
    LET cell == patternCellOf(call.row)
    IN  (/\ call.fn = "parseRow"
         /\ listingOf(call.row).t = "string"
         /\ cell.t # "string" \/ trim(cell.v) = ""
         /\ ~Truthy(findColumnValue(call.row, daysNames))
         /\ ~(Truthy(findColumnValue(call.row, startDateNames))
                /\ Truthy(findColumnValue(call.row, endDateNames)))
         /\ ~(Truthy(findColumnValue(call.row, startTimeNames))
                /\ Truthy(findColumnValue(call.row, endTimeNames))))
        => ret = Arr(<<>>)

\* an empty Meeting Patterns cell, a Start Date and a Start Time on their own
C8_Witness ==
    /\ call.fn = "parseRow"
    /\ patternCellOf(call.row) = Str("")
    /\ findColumnValue(call.row, daysNames) = Str("")
    /\ findColumnValue(call.row, startDateNames) = Str("2024-09-10")
    /\ findColumnValue(call.row, endDateNames) = Str("")
    /\ findColumnValue(call.row, startTimeNames) = Str("9:00 AM")
    /\ findColumnValue(call.row, endTimeNames) = Str("")
    /\ ret = Arr(<<>>)

\* C9: parse takes the data rows in order; a row whose parsing raises adds
\* exactly one message and no event, the events collected so far stay, and the
\* loop goes on: after each round, and in the result, the events are the
\* concatenation in row order of the events of the rows that did not fail, and
\* the errors hold one message per failed row.
C9_RowErrorsAreCaught ==
    /\ pc = "parse_loop" =>
          /\ dataRows = filterDataRows(rows)
          /\ rowIdx \in 1..(Len(dataRows) + 1)
          /\ [events |-> events, errors |-> errors]
                = Expected(SubSeq(dataRows, 1, rowIdx - 1), call.thisYear)
    /\ (pc = "parse_done" /\ Len(rows) > 0) =>
          ret = Expected(filterDataRows(rows), call.thisYear)

\* the first data row raises, the second one gives an event
C9_Witness ==
    /\ pc = "parse_done"
    /\ Len(dataRows) = 2
    /\ IsThrow(parseRow(dataRows[1], call.thisYear))
    /\ ~IsThrow(parseRow(dataRows[2], call.thisYear))
    /\ Len(ret.errors) = 1
    /\ Len(ret.events) = 1
    /\ ret.events = parseRow(dataRows[2], call.thisYear).v

\* C10: normalizeTime, parseDate and parseDays raise no exception for any cell,
\* text or number, and parseRow raises none for a row whose explicit day, time
\* or date cell is numeric or unparseable.
C10_FieldParsingNeverRaises ==
    /\ call.fn \in {"normalizeTime", "parseDate", "parseDays"} => ~IsThrow(ret)
    /\ (call.fn = "parseRow" /\ listingOf(call.row).t = "string") => ~IsThrow(ret)

(***************************************************************************)
(* Time strings of the form H[:MM] [AM|PM]                                 *)
(***************************************************************************)
\* the ways a meridiem is written: any case, with or without periods
Meridiems == { "", "AM", "PM", "am", "pm", "a.m.", "p.m." }

NoMinutes == 0 - 1

\* the text of a time: hour, optional minutes, optional meridiem
TimeText(h, mm, mer) ==
    NatToString(h)
       \o (IF mm = NoMinutes THEN "" ELSE ":" \o padStart2(NatToString(mm)))
       \o (IF mer = "" THEN "" ELSE " " \o mer)

\* hour 1..12 with a meridiem, hour 0..23 without
TimeForms ==
    { f \in [h : 0..23, mm : {NoMinutes, 0, 15, 30, 59}, mer : Meridiems] :
         f.mer # "" => f.h \in 1..12 }

IsPM(mer) == mer \in {"PM", "pm", "p.m."}
IsAM(mer) == mer \in {"AM", "am", "a.m."}

\* the 24-hour value the conversion rule gives
RefClock(f) ==
    [hours |-> IF IsPM(f.mer) /\ f.h # 12 THEN f.h + 12
               ELSE IF IsAM(f.mer) /\ f.h = 12 THEN 0
               ELSE f.h,
     minutes |-> IF f.mm = NoMinutes THEN 0 ELSE f.mm]

\* C11: for every time string of the form H[:MM] [AM|PM] (minutes optional,
\* meridiem optional, any case, with or without periods) normalizeTime returns
\* the 24-hour value: minutes default to 0, PM with an hour other than 12 adds
\* 12, AM with hour 12 gives 0.
C11_NormalizeTimeIsCorrect ==
    (pc = "row_done" /\ call.fn = "normalizeTime" /\ call.cell.t = "string") =>
        \A f \in TimeForms :
            TimeText(f.h, f.mm, f.mer) = call.cell.v => ret = RefClock(f)

(***************************************************************************)
(* Day tokens                                                              *)
(***************************************************************************)
\* the tokens of a days string, as parseDays cuts them
dayTokensOf(daysStr) ==
    split(replaceAll(replaceAll(toLowerCase(daysStr), ReSet({",", "|"}), " "),
                     ReLit("."), ""),
          RePlus(ReSpace))

\* the weekday a token names: the value the table gives the token itself, "" when
\* the token is no entry of the table
RECURSIVE WeekdayOfName(_, _)
WeekdayOfName(token, k) ==
    IF k > Len(dayMap) THEN ""
    ELSE IF token = dayMap[k][1] THEN dayMap[k][2]
    ELSE WeekdayOfName(token, k + 1)

\* first-seen order, no duplicates, tokens that name no weekday skipped
RECURSIVE RefDayCodes(_, _)
RefDayCodes(tokens, days) ==
    IF Len(tokens) = 0 THEN days
    ELSE LET val == WeekdayOfName(Head(tokens), 1)
         IN  RefDayCodes(Tail(tokens),
                 IF val # "" /\ ~ArrIncludes(days, val) THEN Append(days, val) ELSE days)

\* C12: for every day-token string parseDays returns, in first-seen order and
\* without duplicates, the day code of each token that is a recognised weekday
\* name or abbreviation, each token mapped to its own weekday (Thu to TH, Sun to
\* SU, Sat to SA), and skips every token that is no weekday name or abbreviation.
C12_ParseDaysMapsEachToken ==
    (pc = "row_done" /\ call.fn = "parseDays" /\ call.cell.t = "string"
        /\ call.cell.v # "") =>
        ret = Arr(RefDayCodes(dayTokensOf(call.cell.v), <<>>))

(***************************************************************************)
(* Date strings: ISO, day serial, month name                               *)
(***************************************************************************)
NoYear == 0 - 1

RefMonths ==
    << "jan", "feb", "mar", "apr", "may", "jun", "jul", "aug", "sep", "oct", "nov", "dec" >>

\* the month a name stands for: the entry its first three letters are, 0 for none
RefMonthOf(name) ==
    IF \E i \in 1..12 : RefMonths[i] = toLowerCase(SubSeq(name, 1, 3))
    THEN CHOOSE i \in 1..12 : RefMonths[i] = toLowerCase(SubSeq(name, 1, 3))
    ELSE 0

IsoForms == [kind : {"iso"}, y : {2024, 2025}, m : {1, 9, 12}, d : {3, 5, 31}]
SerialForms == [kind : {"serial"}, n : {0, 12345, 20000, 20001, 25569, 45538, 45630}]
TextForms ==
    [kind : {"text"}, mon : {"Sep", "sept", "Dec", "JAN", "Foo"}, d : {3, 5, 12, 31},
     y : {NoYear, 2024, 2025}]

\* the text of a form
DateText(f) ==
    CASE f.kind = "iso" ->
            NatToString(f.y) \o "-" \o padStart2(NatToString(f.m))
                \o "-" \o padStart2(NatToString(f.d))
      [] f.kind = "serial" -> NatToString(f.n)
      [] f.kind = "text" ->
            f.mon \o " " \o NatToString(f.d)
                \o (IF f.y = NoYear THEN "" ELSE ", " \o NatToString(f.y))

\* texts of none of the three forms
OtherDateTexts == { "TBD", "next week" }

\* what the claim says parseDate returns for a form
DateAsClaimed(f, result, thisYear) ==
    CASE f.kind = "iso" -> result = [year |-> f.y, month |-> f.m, day |-> f.d]
      [] f.kind = "serial" ->
            IF f.n > 20000
            THEN /\ result # Null
                 /\ RefValidDate(result)
                 /\ DaysFromCivil(result.year, result.month, result.day) = f.n - 25569
            ELSE result = Null
      [] f.kind = "text" ->
            IF RefMonthOf(f.mon) = 0 THEN result = Null
            ELSE result = [year |-> IF f.y = NoYear THEN thisYear ELSE f.y,
                           month |-> RefMonthOf(f.mon), day |-> f.d]

\* C13: parseDate tries three forms in order: an ISO YYYY-MM-DD text gives that
\* year, month and day; a bare numeric string is read as a day serial (25569 is
\* 1970-01-01, one day per unit) only when its value exceeds 20000; a textual
\* 'Mon D[, YYYY]' gives the month from the 12-entry table; any other text,
\* including a numeric string of at most 20000, gives null.
C13_ParseDateForms ==
    (pc = "row_done" /\ call.fn = "parseDate" /\ call.cell.t = "string") =>
        /\ \A f \in IsoForms \cup SerialForms \cup TextForms :
              DateText(f) = call.cell.v => DateAsClaimed(f, ret, call.thisYear)
        /\ call.cell.v \in OtherDateTexts => ret = Null

\* the serial 45538 was read as 2024-09-03
C13_Witness ==
    /\ pc = "row_done" /\ call.fn = "parseDate"
    /\ call.cell = Str("45538")
    /\ ret = [year |-> 2024, month |-> 9, day |-> 3]

(***************************************************************************)
(* The lines of a document                                                 *)
(***************************************************************************)
\* the content lines of a text: cut at every line feed, with or without a
\* carriage return before it
RECURSIVE SplitLF(_)
SplitLF(s) ==
    IF \E i \in 1..Len(s) : SubSeq(s, i, i) = "\n"
    THEN LET i == CHOOSE k \in 1..Len(s) :
                      /\ SubSeq(s, k, k) = "\n"
                      /\ \A j \in 1..(k - 1) : SubSeq(s, j, j) # "\n"
         IN  <<SubSeq(s, 1, i - 1)>> \o SplitLF(SubSeq(s, i + 1, Len(s)))
    ELSE <<s>>

WithoutCR(l) ==
    IF Len(l) > 0 /\ SubSeq(l, Len(l), Len(l)) = "\r" THEN SubSeq(l, 1, Len(l) - 1) ELSE l

DocLines(text) == [i \in 1..Len(SplitLF(text)) |-> WithoutCR(SplitLF(text)[i])]

\* C14: no line of the document returned by generate exceeds 75 octets: every
\* longer content line (a long SUMMARY, LOCATION or DESCRIPTION) is split into a
\* first line and continuation lines that each begin with a single space.
C14_NoLineExceeds75Octets ==
    pc = "gen_done" =>
        \A i \in 1..Len(DocLines(doc.v)) : Len(DocLines(doc.v)[i]) <= 75

(***************************************************************************)
(* Two encodings of one event                                              *)
(***************************************************************************)
IsStamp(l) == startsWith(l, "DTSTAMP:")

\* the line of a text that begins with a property name, "" for none
LineOf(ls, name) ==
    IF \E i \in 1..Len(ls) : startsWith(ls[i], name)
    THEN ls[CHOOSE i \in 1..Len(ls) : startsWith(ls[i], name)]
    ELSE ""

\* two texts with the same lines, the DTSTAMP line left aside
SameButStamp(a, b) ==
    /\ Len(a) = Len(b)
    /\ \A i \in 1..Len(a) : a[i] = b[i] \/ (IsStamp(a[i]) /\ IsStamp(b[i]))
    /\ \A name \in {"UID:", "DTSTART", "DTEND", "RRULE:"} :
          LineOf(a, name) # "" /\ LineOf(a, name) = LineOf(b, name)

\* C15: two calls of generateEvent on the same valid event return texts that
\* are identical on every line except the DTSTAMP line; the UID, DTSTART, DTEND
\* and RRULE lines are the same in both.
C15_EncodingIsDeterministic ==
    \A i, j \in 1..Len(lines) :
        (pc = "ev_call" /\ lines[i].t = "string") =>
            /\ lines[j].t = "string"
            /\ SameButStamp(SplitCRLF(lines[i].v), SplitCRLF(lines[j].v))

\* two calls at different instants returned two different texts
C15_Witness ==
    /\ pc = "ev_call"
    /\ Len(lines) = 2
    /\ lines[1].t = "string" /\ lines[2].t = "string"
    /\ lines[1] # lines[2]

(***************************************************************************)
(* The DESCRIPTION line                                                    *)
(***************************************************************************)
\* a text with each backslash, semicolon and comma preceded by one backslash
RECURSIVE RefEscaped(_)
RefEscaped(text) ==
    IF Len(text) <= 1
    THEN (IF text \in {"\\", ";", ","} THEN "\\" \o text ELSE text)
    ELSE RefEscaped(SubSeq(text, 1, Len(text) \div 2))
            \o RefEscaped(SubSeq(text, (Len(text) \div 2) + 1, Len(text)))

\* the parts of the description that are present, each escaped
RefDescriptionParts(e) ==
    (IF e.courseTitle # "" THEN <<RefEscaped(e.courseTitle)>> ELSE <<>>)
        \o (IF e.instructor.v # "" THEN <<RefEscaped("Instructor: " \o e.instructor.v)>>
            ELSE <<>>)
        \o (IF e.deliveryMode.v # "" THEN <<RefEscaped("Mode: " \o e.deliveryMode.v)>>
            ELSE <<>>)

\* C16: in an entry's DESCRIPTION line the parts that are present (course title,
\* instructor, delivery mode) are separated by exactly the two-character newline
\* escape sequence, one backslash followed by the letter n, while backslash,
\* semicolon and comma inside a part are each preceded by one backslash.
C16_DescriptionSeparator ==
    (pc = "ev_call" /\ genIdx > 0 /\ ret.t = "string"
        /\ Len(RefDescriptionParts(genEvents[1])) > 0) =>
        LineOf(SplitCRLF(ret.v), "DESCRIPTION:")
            = "DESCRIPTION:" \o join(RefDescriptionParts(genEvents[1]), "\\n")

(***************************************************************************)
(* Column names in another letter case                                     *)
(***************************************************************************)
\* the row with every column name in lower case
LowerCaseHeaders(row) == [i \in 1..Len(row) |-> Cell(toLowerCase(row[i].k), row[i].v)]

\* C17: column names are recognised case-insensitively: a row whose primary
\* column headers (Course Listing, Section, Instructional Format, Delivery Mode,
\* Meeting Patterns, Instructor) differ from these names only in letter case is
\* parsed and filtered exactly like the row with the canonical header names, and
\* the same holds for the explicit date, time and day alias columns.
C17_ColumnNamesIgnoreCase ==
    (pc = "row_done" /\ call.fn = "parseRow") =>
        /\ parseRow(LowerCaseHeaders(call.row), call.thisYear) = ret
        /\ isDataRow(LowerCaseHeaders(call.row)) = isDataRow(call.row)

(***************************************************************************)
(* Clock times of the events                                               *)
(***************************************************************************)
\* a Clock Time: hours 0..23, minutes 0..59
IsClockTime(t) == t.hours \in 0..23 /\ t.minutes \in 0..59

\* C18: every Clock Time that appears in a meeting event returned by the parser
\* (startTime or endTime, from an explicit column, from strict pipe parsing or
\* from fuzzy extraction over a block that also contains dates) has hours in
\* 0..23 and minutes in 0..59.
C18_ClockTimesInRange ==
    (pc = "row_done" /\ call.fn = "parseRow" /\ ret.t = "array") =>
        \A i \in 1..Len(ret.v) :
            /\ Absent(ret.v[i].startTime) \/ IsClockTime(ret.v[i].startTime)
            /\ Absent(ret.v[i].endTime) \/ IsClockTime(ret.v[i].endTime)

(***************************************************************************)
(* The events and the file name the page holds                             *)
(***************************************************************************)
\* the name of a file without its extension, cut at the last period
RECURSIVE RefStem(_)
RefStem(name) ==
    IF name = "" THEN ""
    ELSE IF SubSeq(name, Len(name), Len(name)) = "." THEN SubSeq(name, 1, Len(name) - 1)
    ELSE RefStem(SubSeq(name, 1, Len(name) - 1))

\* the files that give events
FilesWithEvents == {f \in Files : ~IsThrow(f.result) /\ Len(f.result.events) > 0}

\* C19: in every interleaving of uploads (handleFile), completions of the reads,
\* resets (resetState) and downloads (downloadICS), the event list and the file
\* name the application holds come from the same uploaded file: a second upload
\* started while the first read is pending, or a reset during a pending read,
\* never leaves the events of one file stored together with the name of another
\* file or of no file; a download has the name and the events of one file.
C19_EventsAndNameOfOneFile ==
    /\ currentEvents # <<>> =>
          \E f \in FilesWithEvents :
              /\ currentEvents = f.result.events
              /\ currentFileName = RefStem(f.name)
    /\ download # NoValue =>
          \E f \in FilesWithEvents :
              /\ download.events = SelectSeq(f.result.events, isValid)
              /\ download.name = RefStem(f.name) \o ".ics"

=============================================================================
